---- MODULE Spec2Model ----
(***************************************************************************)
(* A model of the ccc symbol table tools: the AST comparison and           *)
(* deduplication of ccc/ast.cpp, the STABS symbol parser and the .mdebug   *)
(* symbol stream parser, and the STABS to AST translation.                 *)
(***************************************************************************)
EXTENDS Integers, Sequences, FiniteSets, TLC

VARIABLES
    \* deduplicate_ast
    per_file_ast,               \* the argument; moved-from entries become NullNode
    deduplicated_nodes,         \* the local of the same name: groups of siblings
    name_to_deduplicated_index, \* the local of the same name
    file_index, node_index,     \* position of the two nested range-for loops
    dd_pc,                      \* "loop" while the loops run, "returned" after
    dd_input,                   \* the argument as it was passed in
    dd_last,                    \* what the last loop iteration did
    dd_run,                     \* 1: first application, 2: applied to its own output
    dd_first_output,            \* the value returned by the first application
    \* compare_ast_nodes
    cmp_lhs, cmp_rhs, cmp_result, cmp_reverse, cmp_pc,
    \* stabs_symbol_to_ast, stabs_type_to_ast, stabs_field_to_ast
    ast_symbol,                 \* the StabsSymbol argument
    ast_stabs_types,            \* the stabs_types argument: type number -> StabsType
    ast_stack,                  \* the activation records of the recursion, innermost last
    ast_ret,                    \* the value the innermost finished call returned
    ast_pc,                     \* "call", "run", then "returned", "caught" or "aborted"
    ast_result,                 \* what stabs_symbol_to_ast returned
    \* parse_symbols
    ps_input,                   \* the argument input: the records of one file
    ps_index,                   \* position of the range-for loop
    ps_prefix,                  \* the local prefix
    ps_output,                  \* the local output
    parser_flags,               \* the argument parser_flags, a set of flag names
    ps_warnings,                \* what CCC_WARN has printed so far
    ps_pc,                      \* "loop" while the loop runs, "returned" after
    ps_result,                  \* the Result the call returned
    \* import_file
    imp_pc,                     \* "parse", "loop", then "returned"
    imp_index,                  \* position in the parsed symbols
    imp_depth,                  \* the block nesting depth
    imp_functions,              \* database.functions: the names, by handle
    imp_current_function,       \* handle of the function last started, 0: none
    imp_parameter_variables,    \* database.parameter_variables
    imp_local_variables,        \* database.local_variables
    imp_result,                 \* the Result the call returned
    \* --- the C++ printer of stdump (comment blocks of a types listing) ---
    pr_pc,                      \* the next comment block to print
    pr_run,                     \* 1: first run, 2: second run on the same input
    pr_input,                   \* input file name, version strings, built-ins
    pr_out,                     \* the text written to out so far
    pr_first_out,               \* the complete text of the first run
    has_anything_been_printed,  \* CppPrinter::has_anything_been_printed
    last_wants_spacing,         \* CppPrinter::last_wants_spacing
    \* --- uncc: writing the output files ---
    un_pc,                      \* position in the loop of main
    un_files,                   \* the output directory: path |-> content
    un_sources,                 \* the keys of path_to_source_file, in order
    un_index,                   \* position of the loop in un_sources
    un_decisions,               \* the files decided on: path, content seen, written
    \* --- stdump: the command line ---
    sd_pc,                      \* position in main
    sd_argv,                    \* argv[1 ..]: the arguments after the program name
    sd_i,                       \* the argument index of the parsing loop
    sd_options,                 \* Options
    require_input_path,         \* a local of parse_command_line_arguments
    input_path_provided,        \* a local of parse_command_line_arguments
    sd_can_open,                \* whether fopen of the output file succeeds
    sd_help_printed,            \* print_help was called
    sd_command,                 \* "none", "completed" or "failed"
    sd_exit,                    \* the exit status of the process, -1 while it runs
    \* --- symbols_to_ast: the loop over the symbols of a file ---
    sy_pc,                      \* position in the loop
    sy_symbols,                 \* the symbols
    sy_index,                   \* position of the loop in sy_symbols
    sy_ast_nodes,               \* ast_nodes: the nodes emitted so far
    \* --- CppPrinter: top-level declarations ---
    cp_pc,                      \* "printing" while the caller prints
    cp_options,                 \* the flags of the printer
    cp_calls,                   \* the calls the caller makes, in order
    cp_index,                   \* the call that comes next
    cp_out,                     \* what was written: per printed item, blank line or not
    \* --- remove_duplicate_enums ---
    en_pc,                      \* "loop" while the outer loop runs, "returned" after
    en_input,                   \* ast_nodes as it was passed in
    en_nodes,                   \* ast_nodes
    en_i,                       \* i, counted from 1
    \* --- write_json(SymbolDatabase) ---
    js_pc,                      \* position in write_json
    js_database,                \* the database
    js_list,                    \* the symbol list the macro expansion is at
    js_index,                   \* position in that list, 0: list not begun
    js_events,                  \* the calls made on the JsonWriter, in order
    \* --- uncc: the files chosen by SOURCES.txt ---
    sl_pc,                      \* position in main
    sl_text,                    \* the text of SOURCES.txt
    source_paths,               \* the local of main of the same name
    sl_source_files,            \* full_path of program.source_files, in order
    path_index, source_index,   \* the loop variables, counted from 1
    path_to_source_file,        \* the local of main: path -> positions of source files
    sl_pairs,                   \* the pairs (entry, source file) added so far
    sl_keys,                    \* the keys the second loop has not reached yet
    sl_written                  \* the (path, source files) handed to the writers

ddVars == <<per_file_ast, deduplicated_nodes, name_to_deduplicated_index,
            file_index, node_index, dd_pc, dd_input, dd_last, dd_run,
            dd_first_output>>
cmpVars == <<cmp_lhs, cmp_rhs, cmp_result, cmp_reverse, cmp_pc>>
astVars == <<ast_symbol, ast_stabs_types, ast_stack, ast_ret, ast_pc, ast_result>>
psVars == <<ps_input, ps_index, ps_prefix, ps_output, parser_flags, ps_warnings,
            ps_pc, ps_result>>
impVars == <<imp_pc, imp_index, imp_depth, imp_functions, imp_current_function,
             imp_parameter_variables, imp_local_variables, imp_result>>
prVars == <<pr_pc, pr_run, pr_input, pr_out, pr_first_out, has_anything_been_printed,
            last_wants_spacing>>
unVars == <<un_pc, un_files, un_sources, un_index, un_decisions>>
sdVars == <<sd_pc, sd_argv, sd_i, sd_options, require_input_path, input_path_provided,
            sd_can_open, sd_help_printed, sd_command, sd_exit>>
symVars == <<sy_pc, sy_symbols, sy_index, sy_ast_nodes>>
cpVars == <<cp_pc, cp_options, cp_calls, cp_index, cp_out>>
enVars == <<en_pc, en_input, en_nodes, en_i>>
jsVars == <<js_pc, js_database, js_list, js_index, js_events>>
slVars == <<sl_pc, sl_text, source_paths, sl_source_files, path_index, source_index, path_to_source_file, sl_pairs, sl_keys, sl_written>>
lateVars == <<symVars, cpVars, enVars, jsVars, slVars>>
toolVars == <<prVars, unVars, sdVars, lateVars>>
extVars == <<impVars, toolVars>>
vars == <<ddVars, cmpVars, astVars, psVars, extVars>>

(***************************************************************************)
(* Bounds of the model.                                                    *)
(***************************************************************************)
MaxFiles == 2
MaxNodes == 4

(***************************************************************************)
(* ast::Node and its subtypes.  One record shape holds every subtype; the  *)
(* members a subtype does not have keep the value given here.               *)
(***************************************************************************)
nullptr == "nullptr"
nullopt == "nullopt"

Node(d) ==
    [descriptor |-> d, name |-> "", storage_class |-> "NONE",
     relative_offset_bytes |-> -1, absolute_offset_bytes |-> -1,
     bitfield_offset_bits |-> -1, size_bits |-> -1,
     compare_fail_reason |-> nullptr, files |-> <<>>,
     child |-> <<>>, element_count |-> -1,
     has_parameters |-> FALSE, parameters |-> <<>>,
     constants |-> <<>>, is_union |-> FALSE, base_classes |-> <<>>,
     fields |-> <<>>, member_functions |-> <<>>, type_name |-> ""]

TypeName(type_name) == [Node("TYPE_NAME") EXCEPT !.type_name = type_name]
Pointer(value_type) == [Node("POINTER") EXCEPT !.child = <<value_type>>]
Reference(value_type) == [Node("REFERENCE") EXCEPT !.child = <<value_type>>]
Array(element_type, element_count) ==
    [Node("ARRAY") EXCEPT !.child = <<element_type>>, !.element_count = element_count]
BitField(underlying_type) == [Node("BITFIELD") EXCEPT !.child = <<underlying_type>>]
Function(return_type) == [Node("FUNCTION") EXCEPT !.child = <<return_type>>]
InlineEnum(constants) == [Node("INLINE_ENUM") EXCEPT !.constants = constants]
InlineStructOrUnion == Node("INLINE_STRUCT_OR_UNION")
BaseClass(visibility, offset, type_name) ==
    [visibility |-> visibility, offset |-> offset, type_name |-> type_name]

\* A unique_ptr that was moved from.
NullNode == [descriptor |-> "null"]

\* No value: a call that has not returned, a Result that does not exist yet.
NoValue == [descriptor |-> "none"]

AstIdle ==
    /\ ast_symbol = NoValue /\ ast_stabs_types = <<>> /\ ast_stack = <<>>
    /\ ast_ret = NoValue /\ ast_pc = "idle" /\ ast_result = NoValue

ParseIdle ==
    /\ ps_input = <<>> /\ ps_index = 1 /\ ps_prefix = <<>> /\ ps_output = <<>>
    /\ parser_flags = {} /\ ps_warnings = <<>> /\ ps_pc = "idle"
    /\ ps_result = NoValue

ImportIdle ==
    /\ imp_pc = "idle" /\ imp_index = 1 /\ imp_depth = 0 /\ imp_functions = <<>>
    /\ imp_current_function = 0 /\ imp_parameter_variables = <<>>
    /\ imp_local_variables = <<>> /\ imp_result = NoValue

PrintIdle ==
    /\ pr_pc = "idle" /\ pr_run = 1 /\ pr_input = NoValue /\ pr_out = ""
    /\ pr_first_out = "" /\ has_anything_been_printed = FALSE
    /\ last_wants_spacing = FALSE

UnccIdle ==
    /\ un_pc = "idle" /\ un_files = <<>> /\ un_sources = <<>> /\ un_index = 1
    /\ un_decisions = <<>>

StdumpIdle ==
    /\ sd_pc = "idle" /\ sd_argv = <<>> /\ sd_i = 1 /\ sd_options = NoValue
    /\ require_input_path = FALSE /\ input_path_provided = FALSE /\ sd_can_open = TRUE
    /\ sd_help_printed = FALSE /\ sd_command = "none" /\ sd_exit = -1

SymbolsIdle == sy_pc = "idle" /\ sy_symbols = <<>> /\ sy_index = 1 /\ sy_ast_nodes = <<>>

DeclarationsIdle ==
    /\ cp_pc = "idle" /\ cp_options = NoValue /\ cp_calls = <<>> /\ cp_index = 1
    /\ cp_out = <<>>

EnumsIdle == en_pc = "idle" /\ en_input = <<>> /\ en_nodes = <<>> /\ en_i = 1

JsonIdle ==
    /\ js_pc = "idle" /\ js_database = NoValue /\ js_list = 1 /\ js_index = 0
    /\ js_events = <<>>

SelectionIdle ==
    /\ sl_pc = "idle" /\ sl_text = "" /\ source_paths = <<>> /\ sl_source_files = <<>>
    /\ path_index = 1 /\ source_index = 1 /\ path_to_source_file = <<>>
    /\ sl_pairs = <<>> /\ sl_keys = <<>> /\ sl_written = {}

LateIdle == SymbolsIdle /\ DeclarationsIdle /\ EnumsIdle /\ JsonIdle /\ SelectionIdle

ToolIdle == PrintIdle /\ UnccIdle /\ StdumpIdle /\ LateIdle

ExtIdle == ImportIdle /\ ToolIdle

(***************************************************************************)
(* compare_ast_nodes                                                       *)
(***************************************************************************)
RECURSIVE compare_ast_nodes(_, _)
RECURSIVE compare_node_lists(_, _, _)
RECURSIVE compare_base_classes(_, _, _)

\* The loops "for i: compare(lhs[i], rhs[i]); if has_value return".
compare_node_lists(lhs, rhs, i) ==
    IF i > Len(lhs) THEN nullopt
    ELSE LET c == compare_ast_nodes(lhs[i], rhs[i])
         IN IF c # nullopt THEN c ELSE compare_node_lists(lhs, rhs, i + 1)

compare_base_classes(lhs, rhs, i) ==
    IF i > Len(lhs) THEN nullopt
    ELSE IF lhs[i].visibility # rhs[i].visibility THEN "BASE_CLASS_VISIBILITY"
    ELSE IF lhs[i].offset # rhs[i].offset THEN "BASE_CLASS_OFFSET"
    ELSE IF lhs[i].type_name # rhs[i].type_name THEN "BASE_CLASS_TYPE_NAME"
    ELSE compare_base_classes(lhs, rhs, i + 1)

compare_function(lhs, rhs) ==
    LET return_compare == compare_ast_nodes(lhs.child[1], rhs.child[1])
    IN IF return_compare # nullopt THEN return_compare
       ELSE IF lhs.has_parameters /\ rhs.has_parameters
            THEN IF Len(lhs.parameters) # Len(rhs.parameters)
                 THEN "FUNCTION_PARAMAETER_SIZE"
                 ELSE compare_node_lists(lhs.parameters, rhs.parameters, 1)
       ELSE IF lhs.has_parameters # rhs.has_parameters
            THEN "FUNCTION_PARAMETERS_HAS_VALUE"
       ELSE nullopt

compare_struct_or_union(lhs, rhs) ==
    IF Len(lhs.base_classes) # Len(rhs.base_classes) THEN "BASE_CLASS_SIZE"
    ELSE LET b == compare_base_classes(lhs.base_classes, rhs.base_classes, 1)
         IN IF b # nullopt THEN b
            ELSE IF Len(lhs.fields) # Len(rhs.fields) THEN "FIELDS_SIZE"
            ELSE LET f == compare_node_lists(lhs.fields, rhs.fields, 1)
                 IN IF f # nullopt THEN f
                    ELSE IF Len(lhs.member_functions) # Len(rhs.member_functions)
                         THEN "MEMBER_FUNCTION_SIZE"
                    ELSE compare_node_lists(lhs.member_functions, rhs.member_functions, 1)

\* The switch over lhs.descriptor, entered with equal descriptors.
compare_kind_specific(lhs, rhs) ==
    CASE lhs.descriptor = "ARRAY" ->
            LET element_compare == compare_ast_nodes(lhs.child[1], rhs.child[1])
            IN IF element_compare # nullopt THEN element_compare
               ELSE IF lhs.element_count # rhs.element_count THEN "ARRAY_ELEMENT_COUNT"
               ELSE nullopt
      [] lhs.descriptor \in {"BITFIELD", "POINTER", "REFERENCE"} ->
            compare_ast_nodes(lhs.child[1], rhs.child[1])
      [] lhs.descriptor = "FUNCTION" -> compare_function(lhs, rhs)
      [] lhs.descriptor = "INLINE_ENUM" ->
            IF lhs.constants # rhs.constants THEN "ENUM_CONSTANTS" ELSE nullopt
      [] lhs.descriptor = "INLINE_STRUCT_OR_UNION" -> compare_struct_or_union(lhs, rhs)
      [] lhs.descriptor = "TYPE_NAME" ->
            IF lhs.type_name # rhs.type_name THEN "TYPE_NAME" ELSE nullopt
      [] OTHER -> nullopt

\* compare_common with the name checked before the storage class.
compare_common_name_first(lhs, rhs) ==
    IF lhs.descriptor # rhs.descriptor THEN "DESCRIPTOR"
    ELSE IF lhs.name # rhs.name THEN "NAME"
    ELSE IF lhs.storage_class # rhs.storage_class THEN "STORAGE_CLASS"
    ELSE IF lhs.relative_offset_bytes # rhs.relative_offset_bytes THEN "RELATIVE_OFFSET_BYTES"
    ELSE IF lhs.absolute_offset_bytes # rhs.absolute_offset_bytes THEN "ABSOLUTE_OFFSET_BYTES"
    ELSE IF lhs.bitfield_offset_bits # rhs.bitfield_offset_bits THEN "BITFIELD_OFFSET_BITS"
    ELSE IF lhs.size_bits # rhs.size_bits THEN "SIZE_BITS"
    ELSE nullopt

\* The seven checks on the members of Node, in the order of the source.
compare_common(lhs, rhs) ==
    IF lhs.descriptor # rhs.descriptor THEN "DESCRIPTOR"
    ELSE IF lhs.storage_class # rhs.storage_class THEN "STORAGE_CLASS"
    ELSE IF lhs.name # rhs.name THEN "NAME"
    ELSE IF lhs.relative_offset_bytes # rhs.relative_offset_bytes THEN "RELATIVE_OFFSET_BYTES"
    ELSE IF lhs.absolute_offset_bytes # rhs.absolute_offset_bytes THEN "ABSOLUTE_OFFSET_BYTES"
    ELSE IF lhs.bitfield_offset_bits # rhs.bitfield_offset_bits THEN "BITFIELD_OFFSET_BITS"
    ELSE IF lhs.size_bits # rhs.size_bits THEN "SIZE_BITS"
    ELSE nullopt

compare_ast_nodes(lhs, rhs) ==
    LET c == compare_common(lhs, rhs)
    IN IF c # nullopt THEN c ELSE compare_kind_specific(lhs, rhs)

compare_fail_reason_to_string(reason) ==
    CASE reason = "DESCRIPTOR" -> "descriptors"
      [] reason = "STORAGE_CLASS" -> "storage classes"
      [] reason = "NAME" -> "names"
      [] reason = "RELATIVE_OFFSET_BYTES" -> "relative offsets"
      [] reason = "ABSOLUTE_OFFSET_BYTES" -> "absolute offsets"
      [] reason = "BITFIELD_OFFSET_BITS" -> "bitfield offsets"
      [] reason = "SIZE_BITS" -> "sizes"
      [] reason = "ARRAY_ELEMENT_COUNT" -> "array element counts"
      [] reason = "FUNCTION_PARAMAETER_SIZE" -> "function paramaeter sizes"
      [] reason = "FUNCTION_PARAMETERS_HAS_VALUE" -> "function parameters"
      [] reason = "ENUM_CONSTANTS" -> "enum constants"
      [] reason = "BASE_CLASS_SIZE" -> "base class sizes"
      [] reason = "BASE_CLASS_VISIBILITY" -> "base class visibility values"
      [] reason = "BASE_CLASS_OFFSET" -> "base class offsets"
      [] reason = "BASE_CLASS_TYPE_NAME" -> "base class type names"
      [] reason = "FIELDS_SIZE" -> "fields sizes"
      [] reason = "MEMBER_FUNCTION_SIZE" -> "member function sizes"
      [] reason = "TYPE_NAME" -> "type name"
      [] OTHER -> ""

(***************************************************************************)
(* deduplicate_ast                                                         *)
(***************************************************************************)
\* is_anonymous_enum without the exemption: no sibling counts as anonymous.
never_anonymous_enum(existing_node) == FALSE

is_anonymous_enum(existing_node) ==
    existing_node.descriptor = "INLINE_ENUM" /\ existing_node.name = ""

\* The assignment to compare_fail_reason made on each side of a failed compare.
set_compare_fail_reason(n, compare_result) ==
    [n EXCEPT !.compare_fail_reason = compare_fail_reason_to_string(compare_result)]

\* One iteration of the loop over existing_nodes: the existing node and the
\* incoming node as the iteration leaves them, and the new value of match.
visit_existing_node(existing_node, node, match) ==
    LET compare_result == compare_ast_nodes(existing_node, node)
    IN IF compare_result # nullopt
       THEN IF ~is_anonymous_enum(existing_node)
            THEN [existing_node |-> set_compare_fail_reason(existing_node, compare_result),
                  node |-> set_compare_fail_reason(node, compare_result),
                  match |-> match]
            ELSE [existing_node |-> existing_node, node |-> node, match |-> match]
       ELSE [existing_node |-> existing_node, node |-> node, match |-> TRUE]

\* The whole loop over existing_nodes, from its i-th element on.
RECURSIVE visit_existing_nodes(_, _, _, _)
visit_existing_nodes(existing_nodes, node, match, i) ==
    IF i > Len(existing_nodes)
    THEN [existing_nodes |-> existing_nodes, node |-> node, match |-> match]
    ELSE LET v == visit_existing_node(existing_nodes[i], node, match)
         IN visit_existing_nodes([existing_nodes EXCEPT ![i] = v.existing_node],
                                 v.node, v.match, i + 1)

\* emplace_back_sibling inserting at the front instead of the back.
emplace_front_sibling(existing_nodes, node) == <<node>> \o existing_nodes

\* existing_nodes.emplace_back(std::move(node))
emplace_back_sibling(existing_nodes, node) == Append(existing_nodes, node)

\* deduplicated_nodes.emplace_back().emplace_back(std::move(node))
emplace_back_group(groups, node) == Append(groups, <<node>>)

\* adds_sibling with the test of match dropped.
adds_sibling_always(match) == TRUE

\* "if(!match)": whether the incoming node becomes a new sibling.
adds_sibling(match) == ~match

\* The body of the inner range-for loop for one incoming node.  index values
\* are those of the source (from 0).
deduplicate_node(groups, name_to_index, node) ==
    IF node.name \notin DOMAIN name_to_index
    THEN [deduplicated_nodes |-> emplace_back_group(groups, node),
          name_to_deduplicated_index |-> (node.name :> Len(groups)) @@ name_to_index,
          node |-> NullNode, kind |-> "new_group", group |-> Len(groups) + 1]
    ELSE LET g == name_to_index[node.name] + 1
             v == visit_existing_nodes(groups[g], node, FALSE, 1)
         IN IF adds_sibling(v.match)
            THEN [deduplicated_nodes |->
                      [groups EXCEPT ![g] = emplace_back_sibling(v.existing_nodes, v.node)],
                  name_to_deduplicated_index |-> name_to_index,
                  node |-> NullNode, kind |-> "new_sibling", group |-> g]
            ELSE [deduplicated_nodes |-> [groups EXCEPT ![g] = v.existing_nodes],
                  name_to_deduplicated_index |-> name_to_index,
                  node |-> v.node, kind |-> "matched", group |-> g]

\* The position the nested range-for loops reach after (f, n): the next node
\* of file f, else the first node of the next file that has one, else the end.
RECURSIVE next_position(_, _, _)
next_position(files, f, n) ==
    IF f > Len(files) THEN [file_index |-> f, node_index |-> 1]
    ELSE IF n + 1 <= Len(files[f].ast_nodes) THEN [file_index |-> f, node_index |-> n + 1]
    ELSE next_position(files, f + 1, 0)

NoIteration == [kind |-> "none", group |-> 0, file_name |-> 0, node |-> NullNode]

\* One iteration of the loops of deduplicate_ast (lines 329 to 357).
deduplicate_ast_iteration ==
    /\ dd_pc = "loop"
    /\ file_index <= Len(per_file_ast)
    /\ LET node == per_file_ast[file_index].ast_nodes[node_index]
           r == deduplicate_node(deduplicated_nodes, name_to_deduplicated_index, node)
           p == next_position(per_file_ast, file_index, node_index)
       IN /\ deduplicated_nodes' = r.deduplicated_nodes
          /\ name_to_deduplicated_index' = r.name_to_deduplicated_index
          /\ per_file_ast' =
                 [per_file_ast EXCEPT ![file_index].ast_nodes[node_index] = r.node]
          /\ dd_last' = [kind |-> r.kind, group |-> r.group,
                         file_name |-> per_file_ast[file_index].file_name, node |-> node]
          /\ file_index' = p.file_index
          /\ node_index' = p.node_index
    /\ UNCHANGED <<dd_pc, dd_input, dd_run, dd_first_output, cmpVars, astVars, psVars, extVars>>

\* The loops are over: return deduplicated_nodes (line 359).
deduplicate_ast_return ==
    /\ dd_pc = "loop"
    /\ file_index > Len(per_file_ast)
    /\ dd_pc' = "returned"
    /\ dd_last' = NoIteration
    /\ UNCHANGED <<per_file_ast, deduplicated_nodes, name_to_deduplicated_index,
                   file_index, node_index, dd_input, dd_run, dd_first_output,
                   cmpVars, astVars, psVars, extVars>>

\* All siblings of all groups, in output order.
RECURSIVE flatten(_)
flatten(groups) == IF groups = <<>> THEN <<>> ELSE Head(groups) \o flatten(Tail(groups))

\* deduplicate_ast is called again, on the nodes its first call returned.
deduplicate_ast_again ==
    /\ dd_pc = "returned"
    /\ dd_run = 1
    /\ dd_run' = 2
    /\ dd_first_output' = deduplicated_nodes
    /\ LET files == <<[file_name |-> 1, ast_nodes |-> flatten(deduplicated_nodes)]>>
           p == next_position(files, 1, 0)
       IN /\ per_file_ast' = files
          /\ dd_input' = files
          /\ file_index' = p.file_index
          /\ node_index' = p.node_index
    /\ deduplicated_nodes' = <<>>
    /\ name_to_deduplicated_index' = <<>>
    /\ dd_pc' = "loop"
    /\ dd_last' = NoIteration
    /\ UNCHANGED <<cmpVars, astVars, psVars, extVars>>

(***************************************************************************)
(* The nodes deduplicate_ast is run on: three differing declarations of    *)
(* one name, an anonymous enum, and a second unnamed node.                 *)
(***************************************************************************)
NodeT_int == [TypeName("int") EXCEPT !.name = "T", !.size_bits = 32]
NodeT_typedef == [NodeT_int EXCEPT !.storage_class = "TYPEDEF"]
NodeT_long == [NodeT_int EXCEPT !.size_bits = 64]
NodeAnonEnum == InlineEnum(<<<<0, "RED">>, <<1, "GREEN">>>>)
NodeAnonStruct == [InlineStructOrUnion EXCEPT !.size_bits = 8]
DedupNodes == {NodeT_int, NodeT_typedef, NodeT_long, NodeAnonEnum, NodeAnonStruct}

\* The nodes of files[1..n] whose tag is f, in order.
RECURSIVE nodes_of_file(_, _, _, _)
nodes_of_file(nodes, tags, f, i) ==
    IF i > Len(nodes) THEN <<>>
    ELSE (IF tags[i] = f THEN <<nodes[i]>> ELSE <<>>) \o nodes_of_file(nodes, tags, f, i + 1)

NonDecreasing(tags) == \A i \in DOMAIN tags : \A j \in DOMAIN tags : i <= j => tags[i] <= tags[j]

DedupIdle ==
    /\ per_file_ast = <<>> /\ deduplicated_nodes = <<>>
    /\ name_to_deduplicated_index = <<>>
    /\ file_index = 1 /\ node_index = 1
    /\ dd_pc = "idle" /\ dd_input = <<>> /\ dd_last = NoIteration
    /\ dd_run = 0 /\ dd_first_output = <<>>

CompareIdle ==
    /\ cmp_lhs = NullNode /\ cmp_rhs = NullNode
    /\ cmp_result = nullopt /\ cmp_reverse = nullopt /\ cmp_pc = "idle"

DedupInit ==
    /\ \E n \in 0..MaxNodes :
         \E nodes \in [1..n -> DedupNodes] :
           \E tags \in {t \in [1..n -> 1..MaxFiles] : NonDecreasing(t)} :
             /\ per_file_ast =
                    [f \in 1..MaxFiles |->
                        [file_name |-> f, ast_nodes |-> nodes_of_file(nodes, tags, f, 1)]]
             /\ dd_input = per_file_ast
             /\ LET p == next_position(per_file_ast, 1, 0)
                IN file_index = p.file_index /\ node_index = p.node_index
    /\ deduplicated_nodes = <<>>
    /\ name_to_deduplicated_index = <<>>
    /\ dd_pc = "loop"
    /\ dd_last = NoIteration
    /\ dd_run = 1
    /\ dd_first_output = <<>>
    /\ CompareIdle /\ AstIdle /\ ParseIdle /\ ExtIdle

DedupNext ==
    \/ deduplicate_ast_iteration
    \/ deduplicate_ast_return
    \/ deduplicate_ast_again

SpecDedup == DedupInit /\ [][DedupNext]_vars

(***************************************************************************)
(* compare_ast_nodes applied to a pair of nodes, in both orders.           *)
(***************************************************************************)
LeafInt == TypeName("int")
LeafChar == TypeName("char")
SmallLeaves == {LeafInt, LeafChar, [LeafInt EXCEPT !.size_bits = 8]}

CommonVariants ==
    {[TypeName(tn) EXCEPT !.name = nm, !.storage_class = sc, !.size_bits = sz] :
        tn \in {"int", "char"}, nm \in {"", "a"}, sc \in {"NONE", "TYPEDEF"},
        sz \in {-1, 32}}
    \cup
    {[LeafInt EXCEPT !.relative_offset_bytes = r, !.absolute_offset_bytes = a,
                     !.bitfield_offset_bits = b] : r \in {-1, 0}, a \in {-1, 0}, b \in {-1, 0}}

ParameterLists == {<<>>, <<LeafInt>>, <<LeafChar>>, <<LeafInt, LeafChar>>}
FunctionNodes ==
    {Function(r) : r \in {LeafInt, LeafChar}}
    \cup {[Function(r) EXCEPT !.has_parameters = TRUE, !.parameters = ps] :
            r \in {LeafInt, LeafChar}, ps \in ParameterLists}
EnumNodes ==
    {InlineEnum(cs) : cs \in {<<>>, <<<<0, "RED">>>>, <<<<1, "RED">>>>, <<<<0, "RED">>, <<1, "GREEN">>>>}}
BaseClassLists ==
    {<<>>, <<BaseClass("PUBLIC", 0, "Base")>>, <<BaseClass("PRIVATE", 0, "Base")>>,
     <<BaseClass("PUBLIC", 4, "Base")>>, <<BaseClass("PUBLIC", 0, "Other")>>}
FieldLists ==
    {<<>>, <<[LeafInt EXCEPT !.name = "x"]>>, <<[LeafInt EXCEPT !.name = "y"]>>,
     <<[LeafInt EXCEPT !.name = "x"], Pointer(LeafChar)>>}
MemberFunctionLists == {<<>>, <<[Function(LeafInt) EXCEPT !.name = "get"]>>}
StructNodes ==
    {[InlineStructOrUnion EXCEPT !.base_classes = bs, !.fields = fs,
                                 !.member_functions = ms, !.is_union = u] :
        bs \in BaseClassLists, fs \in FieldLists, ms \in MemberFunctionLists,
        u \in BOOLEAN}
CompareNodes ==
    CommonVariants
    \cup {Pointer(l) : l \in SmallLeaves} \cup {Reference(l) : l \in SmallLeaves}
    \cup {Pointer(Pointer(l)) : l \in SmallLeaves}
    \cup {BitField(l) : l \in SmallLeaves}
    \cup {Array(l, n) : l \in SmallLeaves, n \in {1, 2}}
    \cup FunctionNodes \cup EnumNodes \cup StructNodes
    \cup {Node("BUILTIN")}

CompareInit ==
    /\ cmp_lhs \in CompareNodes
    /\ cmp_rhs \in CompareNodes
    /\ cmp_result = nullopt /\ cmp_reverse = nullopt
    /\ cmp_pc = "call"
    /\ DedupIdle /\ AstIdle /\ ParseIdle /\ ExtIdle

\* compare_ast_nodes(lhs, rhs), and the call with the arguments exchanged.
compare_ast_nodes_call ==
    /\ cmp_pc = "call"
    /\ cmp_result' = compare_ast_nodes(cmp_lhs, cmp_rhs)
    /\ cmp_reverse' = compare_ast_nodes(cmp_rhs, cmp_lhs)
    /\ cmp_pc' = "returned"
    /\ UNCHANGED <<cmp_lhs, cmp_rhs, ddVars, astVars, psVars, extVars>>

CompareNext == compare_ast_nodes_call

SpecCompare == CompareInit /\ [][CompareNext]_vars

(***************************************************************************)
(* Properties of deduplicate_ast.                                          *)
(***************************************************************************)
\* The nodes of all files of the argument, in the order the loops visit them.
RECURSIVE input_nodes(_, _)
input_nodes(files, f) ==
    IF f > Len(files) THEN <<>> ELSE files[f].ast_nodes \o input_nodes(files, f + 1)

RECURSIVE count_before(_, _)
count_before(files, f) ==
    IF f < 1 THEN 0 ELSE Len(files[f].ast_nodes) + count_before(files, f - 1)

\* How many nodes of the argument the loops have been through.
ProcessedCount ==
    IF dd_pc = "idle" THEN 0
    ELSE IF file_index > Len(dd_input) THEN count_before(dd_input, Len(dd_input))
    ELSE count_before(dd_input, file_index - 1) + node_index - 1

SetMin(S, none) == IF S = {} THEN none ELSE CHOOSE x \in S : \A y \in S : x <= y
SetMax(S, none) == IF S = {} THEN none ELSE CHOOSE x \in S : \A y \in S : y <= x

AtIteration == dd_pc = "loop" /\ file_index <= Len(per_file_ast)
IncomingNode == per_file_ast[file_index].ast_nodes[node_index]
GroupsNamed(name) ==
    {g \in DOMAIN deduplicated_nodes : deduplicated_nodes[g][1].name = name}

C1_Hence ==
    LET input == input_nodes(dd_input, 1)
    IN \A k \in 1..ProcessedCount :
         \E g \in GroupsNamed(input[k].name) :
           \E i \in DOMAIN deduplicated_nodes[g] :
             compare_ast_nodes(deduplicated_nodes[g][i], input[k]) = nullopt

C1_Step ==
    AtIteration =>
      LET node == IncomingNode
          G == GroupsNamed(node.name)
      IN IF G = {}
         THEN deduplicated_nodes' = Append(deduplicated_nodes, <<node>>)
         ELSE \E g \in G :
                /\ Len(deduplicated_nodes') = Len(deduplicated_nodes)
                /\ \A h \in DOMAIN deduplicated_nodes :
                     h # g => deduplicated_nodes'[h] = deduplicated_nodes[h]
                /\ IF \E i \in DOMAIN deduplicated_nodes[g] :
                        compare_ast_nodes(deduplicated_nodes[g][i], node) = nullopt
                   THEN Len(deduplicated_nodes'[g]) = Len(deduplicated_nodes[g])
                   ELSE /\ Len(deduplicated_nodes'[g]) = Len(deduplicated_nodes[g]) + 1
                        /\ compare_ast_nodes(
                               deduplicated_nodes'[g][Len(deduplicated_nodes'[g])],
                               node) = nullopt

\* C1: a node whose name has no group starts a group holding only that node;
\* a node that compares equal to a sibling of its name's group is not added;
\* a node that differs from every sibling is appended to the group.  Hence
\* every node the loops have been through compares equal to a sibling of the
\* group of its name.
C1_GroupOrSibling == []C1_Hence /\ [][C1_Step]_vars

C1_Witness ==
    /\ dd_pc = "returned" /\ dd_run = 1
    /\ Len(deduplicated_nodes) >= 2
    /\ \E g \in DOMAIN deduplicated_nodes : Len(deduplicated_nodes[g]) >= 2
    /\ Len(flatten(deduplicated_nodes)) < Len(input_nodes(dd_input, 1))

\* The incoming node as the iteration leaves it: the new last sibling if it
\* was moved into the group, else the element of the argument.
NodeAfter(g) ==
    IF per_file_ast'[file_index].ast_nodes[node_index] = NullNode
    THEN deduplicated_nodes'[g][Len(deduplicated_nodes'[g])]
    ELSE per_file_ast'[file_index].ast_nodes[node_index]

Records(s, node) ==
    /\ compare_ast_nodes(s, node) # nullopt
    /\ ~(s.descriptor = "INLINE_ENUM" /\ s.name = "")

C2_Amended_Step ==
    AtIteration =>
      LET node == IncomingNode
          G == GroupsNamed(node.name)
      IN \A g \in G :
           LET group == deduplicated_nodes[g]
               recording == {i \in DOMAIN group : Records(group[i], node)}
               last == SetMax(recording, 0)
           IN /\ \A i \in DOMAIN group :
                   deduplicated_nodes'[g][i] =
                     IF i \in recording
                     THEN [group[i] EXCEPT !.compare_fail_reason =
                             compare_fail_reason_to_string(compare_ast_nodes(group[i], node))]
                     ELSE group[i]
              /\ NodeAfter(g).compare_fail_reason =
                   IF last = 0 THEN node.compare_fail_reason
                   ELSE compare_fail_reason_to_string(compare_ast_nodes(group[last], node))

\* C2 (amended): a compare_fail_reason is recorded on a sibling and on the
\* incoming node exactly when the incoming node differs from that sibling and
\* the sibling is not an anonymous inline enum, whether the incoming node is
\* then added as a new sibling or matches another sibling and is merged; a
\* sibling the incoming node compares equal to, or an anonymous enum, is left
\* as it was.
C2_ReasonPerDifferingSibling == [][C2_Amended_Step]_vars

C2_Witness ==
    /\ dd_last.kind = "matched"
    /\ Len(deduplicated_nodes[dd_last.group]) >= 3
    /\ \E i \in DOMAIN deduplicated_nodes[dd_last.group] :
         deduplicated_nodes[dd_last.group][i].compare_fail_reason # nullptr

C2_Original_Step ==
    AtIteration =>
      LET node == IncomingNode
          G == GroupsNamed(node.name)
      IN \A g \in G :
           LET group == deduplicated_nodes[g]
               matched == \E i \in DOMAIN group :
                            compare_ast_nodes(group[i], node) = nullopt
           IN IF matched
              THEN \A i \in DOMAIN group :
                     deduplicated_nodes'[g][i].compare_fail_reason =
                       group[i].compare_fail_reason
              ELSE \A i \in DOMAIN deduplicated_nodes'[g] :
                     deduplicated_nodes'[g][i].compare_fail_reason # nullptr

\* C2 as stated: a reason is recorded on both sides exactly when the incoming
\* node matched no sibling and was added; when it matches some sibling no
\* sibling's compare_fail_reason changes.
C2_ReasonOnlyWhenAdded == [][C2_Original_Step]_vars

SameShape(a, b) ==
    /\ Len(a) = Len(b)
    /\ \A g \in DOMAIN a : Len(a[g]) = Len(b[g])

\* C3 (amended): deduplicate_ast applied to the siblings of all groups of a
\* first run, in output order, returns the same number of groups, each with
\* the same number of siblings, and each sibling compares equal under
\* compare_ast_nodes to the sibling at the same place of the first run; the
\* compare_fail_reason of a sibling may differ.
C3_IdempotentUpToReason ==
    (dd_run = 2 /\ dd_pc = "returned") =>
      /\ SameShape(deduplicated_nodes, dd_first_output)
      /\ \A g \in DOMAIN deduplicated_nodes :
           \A i \in DOMAIN deduplicated_nodes[g] :
             compare_ast_nodes(deduplicated_nodes[g][i], dd_first_output[g][i]) = nullopt

C3_Witness ==
    /\ dd_run = 2 /\ dd_pc = "returned"
    /\ Len(deduplicated_nodes) >= 2
    /\ \E g \in DOMAIN deduplicated_nodes : Len(deduplicated_nodes[g]) >= 3

\* C3 as stated: the second run returns the value the first run returned.
C3_Idempotent ==
    (dd_run = 2 /\ dd_pc = "returned") => deduplicated_nodes = dd_first_output

SeqRange(q) == {q[i] : i \in DOMAIN q}

\* C5 as stated: when a node is found equal to an existing sibling its file is
\* appended to that sibling's files, and every data type returned records at
\* least one file.
C5_FilesRecorded ==
    /\ dd_last.kind = "matched" =>
         \E i \in DOMAIN deduplicated_nodes[dd_last.group] :
           LET s == deduplicated_nodes[dd_last.group][i]
           IN /\ compare_ast_nodes(s, dd_last.node) = nullopt
              /\ dd_last.file_name \in SeqRange(s.files)
    /\ dd_pc = "returned" =>
         \A g \in DOMAIN deduplicated_nodes :
           \A i \in DOMAIN deduplicated_nodes[g] : Len(deduplicated_nodes[g][i].files) >= 1

\* C6: groups are in the order in which their names first occur in the
\* argument, and the siblings of a group in the order in which a node equal
\* to them first occurs.
C6_FirstSeenOrder ==
    LET input == input_nodes(dd_input, 1)
        P == ProcessedCount
        FirstOfName(nm) == SetMin({k \in 1..P : input[k].name = nm}, P + 1)
        FirstEqual(s) ==
            SetMin({k \in 1..P : compare_ast_nodes(s, input[k]) = nullopt}, P + 1)
    IN /\ \A g \in DOMAIN deduplicated_nodes :
            /\ FirstOfName(deduplicated_nodes[g][1].name) <= P
            /\ \A h \in DOMAIN deduplicated_nodes :
                 g < h => FirstOfName(deduplicated_nodes[g][1].name)
                            < FirstOfName(deduplicated_nodes[h][1].name)
            /\ \A i \in DOMAIN deduplicated_nodes[g] :
                 /\ FirstEqual(deduplicated_nodes[g][i]) <= P
                 /\ \A j \in DOMAIN deduplicated_nodes[g] :
                      i < j => FirstEqual(deduplicated_nodes[g][i])
                                 < FirstEqual(deduplicated_nodes[g][j])
       /\ \A k \in 1..P : GroupsNamed(input[k].name) # {}

C6_Witness ==
    /\ dd_pc = "returned" /\ dd_run = 1
    /\ Len(deduplicated_nodes) = 2
    /\ Len(deduplicated_nodes[1]) >= 2 /\ Len(deduplicated_nodes[2]) >= 2
    /\ \E f \in DOMAIN dd_input : \E k \in DOMAIN dd_input[f].ast_nodes :
         f > 1 /\ dd_input[f].ast_nodes[k].name # dd_input[1].ast_nodes[1].name

(***************************************************************************)
(* Properties of compare_ast_nodes.                                        *)
(***************************************************************************)
CommonAttributes ==
    <<"descriptor", "storage_class", "name", "relative_offset_bytes",
      "absolute_offset_bytes", "bitfield_offset_bits", "size_bits">>
CommonReasons ==
    <<"DESCRIPTOR", "STORAGE_CLASS", "NAME", "RELATIVE_OFFSET_BYTES",
      "ABSOLUTE_OFFSET_BYTES", "BITFIELD_OFFSET_BITS", "SIZE_BITS">>

\* C4: compare_ast_nodes is reflexive and symmetric, both orders report the
\* same reason, and when a member of Node differs the reason is the first
\* differing one in the order descriptor, storage class, name, relative
\* offset, absolute offset, bit-field offset, size; the kind-specific
\* attributes (and the children) are looked at only when those seven agree.
C4_PartialEquivalence ==
    cmp_pc = "returned" =>
      LET differing == {k \in 1..7 :
                          cmp_lhs[CommonAttributes[k]] # cmp_rhs[CommonAttributes[k]]}
      IN /\ (cmp_lhs = cmp_rhs => cmp_result = nullopt)
         /\ cmp_result = cmp_reverse
         /\ differing # {} => cmp_result = CommonReasons[SetMin(differing, 0)]
         /\ (differing = {} /\ cmp_lhs.descriptor \in {"TYPE_NAME", "INLINE_ENUM", "BUILTIN"})
               => cmp_result \notin SeqRange(CommonReasons)

C4_Witness ==
    /\ cmp_pc = "returned"
    /\ cmp_lhs.storage_class # cmp_rhs.storage_class
    /\ cmp_lhs.size_bits # cmp_rhs.size_bits
    /\ cmp_lhs.name # cmp_rhs.name
    /\ cmp_result = "STORAGE_CLASS"


(***************************************************************************)
(* Lexical primitives of the STABS parser (unnamed/part_001).  A C string  *)
(* is a sequence of one-character strings; the cursor `input` is an index  *)
(* into it, and the character past the end is the terminating NUL.         *)
(***************************************************************************)
NUL == "NUL"
Digits == {"0", "1", "2", "3", "4", "5", "6", "7", "8", "9"}
Letters ==
    {"a", "b", "c", "d", "e", "f", "g", "h", "i", "j", "k", "l", "m", "n", "o",
     "p", "q", "r", "s", "t", "u", "v", "w", "x", "y", "z", "A", "B", "C", "D",
     "E", "F", "G", "H", "I", "J", "K", "L", "M", "N", "O", "P", "Q", "R", "S",
     "T", "U", "V", "W", "X", "Y", "Z"}
isalnum(c) == c \in Letters \cup Digits
isspace(c) == c \in {" ", "\t", "\n"}

DigitValue(c) ==
    CASE c = "0" -> 0 [] c = "1" -> 1 [] c = "2" -> 2 [] c = "3" -> 3
      [] c = "4" -> 4 [] c = "5" -> 5 [] c = "6" -> 6 [] c = "7" -> 7
      [] c = "8" -> 8 [] c = "9" -> 9

Peek(s, input) == IF input <= Len(s) THEN s[input] ELSE NUL

\* std::string built from characters.
RECURSIVE string(_)
string(chars) == IF chars = <<>> THEN "" ELSE Head(chars) \o string(Tail(chars))

\* std::optional and Result, each with the cursor the call left behind.
Some(value, input) == [has_value |-> TRUE, value |-> value, input |-> input]
None(input) == [has_value |-> FALSE, value |-> <<>>, input |-> input]
Success(value, input) ==
    [success |-> TRUE, value |-> value, input |-> input, message |-> ""]
Failure(message) ==
    [success |-> FALSE, value |-> <<>>, input |-> 0, message |-> message]

STAB_TRUNCATED_ERROR_MESSAGE ==
    "STABS symbol truncated. This was probably caused by a GCC bug. "
    \o "Other symbols from the same translation unit may be invalid."

\* CCC_EXPECT_CHAR(input, c, context)
expect_char(s, input, c, context) ==
    IF Peek(s, input) = c THEN Success(c, input + 1)
    ELSE Failure("Expected '" \o c \o "' in " \o context \o ".")

eat_char(s, input) ==
    IF Peek(s, input) = NUL THEN None(input) ELSE Some(s[input], input + 1)

\* strtoll(input, &end, 10): white space, an optional sign, decimal digits.
RECURSIVE strtoll_space(_, _)
strtoll_space(s, input) ==
    IF isspace(Peek(s, input)) THEN strtoll_space(s, input + 1) ELSE input

RECURSIVE strtoll_digits(_, _, _)
strtoll_digits(s, input, value) ==
    IF Peek(s, input) \in Digits
    THEN strtoll_digits(s, input + 1, value * 10 + DigitValue(s[input]))
    ELSE [value |-> value, end |-> input]

strtoll(s, input) ==
    LET sign == strtoll_space(s, input)
        first == IF Peek(s, sign) \in {"-", "+"} THEN sign + 1 ELSE sign
        d == strtoll_digits(s, first, 0)
    IN IF d.end = first THEN [value |-> 0, end |-> input]
       ELSE [value |-> IF Peek(s, sign) = "-" THEN -d.value ELSE d.value,
             end |-> d.end]

\* The conversion (s32) value.  The literals of the model are a few digits
\* long, and on the values of that range the conversion keeps
\* the value.
s32(value) == value

eat_s32_literal(s, input) ==
    LET r == strtoll(s, input)
    IN IF r.end = input THEN None(input) ELSE Some(s32(r.value), r.end)

eat_s64_literal(s, input) ==
    LET r == strtoll(s, input)
    IN IF r.end = input THEN None(input) ELSE Some(r.value, r.end)

RECURSIVE eat_stabs_identifier_loop(_, _, _, _)
eat_stabs_identifier_loop(s, input, identifier, first) ==
    IF Peek(s, input) = NUL THEN None(input)
    ELSE LET c == s[input]
             valid_char == (c # ":" /\ c # ";") \/ (~first /\ isalnum(c))
         IN IF valid_char
            THEN eat_stabs_identifier_loop(s, input + 1, Append(identifier, c), FALSE)
            ELSE Some(string(identifier), input)

eat_stabs_identifier(s, input) == eat_stabs_identifier_loop(s, input, <<>>, TRUE)

RECURSIVE eat_dodgy_stabs_identifier_loop(_, _, _, _, _)
eat_dodgy_stabs_identifier_loop(s, input, identifier, first, template_depth) ==
    IF Peek(s, input) = NUL THEN Failure(STAB_TRUNCATED_ERROR_MESSAGE)
    ELSE LET c == s[input]
             depth == IF c = "<" THEN template_depth + 1
                      ELSE IF c = ">" THEN template_depth - 1
                      ELSE template_depth
             valid_char == ((c # ":" \/ depth # 0) /\ c # ";")
                           \/ (~first /\ isalnum(c))
         IN IF valid_char
            THEN eat_dodgy_stabs_identifier_loop(s, input + 1, Append(identifier, c),
                                                 FALSE, depth)
            ELSE Success(string(identifier), input)

eat_dodgy_stabs_identifier(s, input) ==
    eat_dodgy_stabs_identifier_loop(s, input, <<>>, TRUE, 0)

(***************************************************************************)
(* parse_stabs_type and the parsers it calls.  StabsType holds the members *)
(* of every subtype; StabsTypeInfo is the part parsed before the body.     *)
(***************************************************************************)
StabsType(info, descriptor) ==
    [anonymous |-> info.anonymous, has_body |-> info.has_body,
     type_number |-> info.type_number, has_name |-> FALSE, name |-> "",
     descriptor |-> descriptor, is_typedef |-> FALSE, is_root |-> FALSE,
     child |-> <<>>, index_type |-> <<>>, class_type |-> <<>>,
     first_base_class |-> <<>>, enum_fields |-> <<>>, low |-> "", high |-> "",
     low_maybe_wrong |-> 0, high_maybe_wrong |-> 0,
     size |-> 0, base_classes |-> <<>>, fields |-> <<>>,
     member_functions |-> <<>>, cross_reference_type |-> "", identifier |-> "",
     fpclass |-> 0, bytes |-> 0, parameter_types |-> <<>>, size_bits |-> 0,
     type_id |-> 0]

StabsTypeNumber(file, type) == [file |-> file, type |-> type]

Field ==
    [name |-> "", type |-> NoValue, visibility |-> "NONE", offset_bits |-> 0,
     size_bits |-> 0, is_static |-> FALSE, type_name |-> ""]

\* The conversion (StabsTypeDescriptor) of a descriptor character.
type_descriptor(c) ==
    CASE c = "a" -> "ARRAY" [] c = "e" -> "ENUM" [] c = "f" -> "FUNCTION"
      [] c = "B" -> "VOLATILE_QUALIFIER" [] c = "k" -> "CONST_QUALIFIER"
      [] c = "r" -> "RANGE" [] c = "s" -> "STRUCT" [] c = "u" -> "UNION"
      [] c = "x" -> "CROSS_REFERENCE" [] c = "R" -> "FLOATING_POINT_BUILTIN"
      [] c = "#" -> "METHOD" [] c = "&" -> "REFERENCE" [] c = "*" -> "POINTER"
      [] c = "@" -> "TYPE_ATTRIBUTE" [] c = "-" -> "BUILTIN"
      [] OTHER -> "INVALID"

\* The conversion (StabsStructOrUnionType::Visibility) of a character.
visibility_of(c) ==
    CASE c = "0" -> "PRIVATE" [] c = "1" -> "PROTECTED" [] c = "2" -> "PUBLIC"
      [] c = "9" -> "PUBLIC_OPTIMIZED_OUT" [] OTHER -> "INVALID"

\* CCC_RETURN_IF_ERROR(result): after a failure the function returns it,
\* after a success it goes on with Rest.
Then(result, Rest(_)) == IF result.success THEN Rest(result) ELSE result

\* CCC_CHECK(optional.has_value(), message)
Check(optional, message, Rest(_)) ==
    IF optional.has_value THEN Rest(optional) ELSE Failure(message)

RECURSIVE parse_stabs_type(_, _)
RECURSIVE parse_enum_fields(_, _, _)
RECURSIVE parse_base_classes(_, _, _, _, _)
RECURSIVE parse_field_list_loop(_, _, _)
RECURSIVE parse_member_function_sets(_, _, _)
RECURSIVE parse_overloads(_, _, _)
RECURSIVE parse_method_parameters(_, _, _)

\* Lines 156-163 and 168-178: with "=" a body follows the type number.
type_number_info(s, input, type_number) ==
    IF Peek(s, input) # "="
    THEN Success([anonymous |-> FALSE, has_body |-> FALSE,
                  type_number |-> type_number], input)
    ELSE Success([anonymous |-> FALSE, has_body |-> TRUE,
                  type_number |-> type_number], input + 1)

\* The type number in front of a type: "(file,type)", "type", or none.
parse_type_number(s, input) ==
    IF Peek(s, input) = "("
    THEN Check(eat_s32_literal(s, input + 1), "Cannot parse file number.",
           LAMBDA file_number :
         Then(expect_char(s, file_number.input, ",", "type number"),
           LAMBDA comma :
         Check(eat_s32_literal(s, comma.input), "Cannot parse type number.",
           LAMBDA type_number :
         Then(expect_char(s, type_number.input, ")", "type number"),
           LAMBDA paren :
         type_number_info(s, paren.input,
                          StabsTypeNumber(file_number.value, type_number.value))))))
    ELSE IF Peek(s, input) \in Digits
    THEN Check(eat_s32_literal(s, input), "Cannot parse type number.",
           LAMBDA type_number :
         type_number_info(s, type_number.input,
                          StabsTypeNumber(-1, type_number.value)))
    ELSE Success([anonymous |-> TRUE, has_body |-> TRUE,
                  type_number |-> StabsTypeNumber(-1, -1)], input)

\* The descriptors whose body is one type: "out->type = parse_stabs_type(input)".
parse_one_type(info, descriptor, s, input) ==
    Then(parse_stabs_type(s, input), LAMBDA type :
    Success([StabsType(info, descriptor) EXCEPT !.child = <<type.value>>], type.input))

parse_array(info, s, input) ==
    Then(parse_stabs_type(s, input), LAMBDA index_type :
    Then(parse_stabs_type(s, index_type.input), LAMBDA element_type :
    Success([StabsType(info, "ARRAY") EXCEPT
                !.index_type = <<index_type.value>>,
                !.child = <<element_type.value>>],
            element_type.input)))

parse_enum_fields(s, input, fields) ==
    IF Peek(s, input) = ";" THEN Success(fields, input + 1)
    ELSE Check(eat_stabs_identifier(s, input), "Cannot parse enum field name.",
           LAMBDA name :
         Then(expect_char(s, name.input, ":", "enum"), LAMBDA colon :
         Check(eat_s32_literal(s, colon.input), "Cannot parse enum value.",
           LAMBDA value :
         Then(expect_char(s, value.input, ",", "enum"), LAMBDA comma :
         parse_enum_fields(s, comma.input,
                           Append(fields, <<value.value, name.value>>))))))

parse_enum(info, s, input) ==
    Then(parse_enum_fields(s, input, <<>>), LAMBDA fields :
    Success([StabsType(info, "ENUM") EXCEPT !.enum_fields = fields.value],
            fields.input))

parse_range(info, s, input) ==
    Then(parse_stabs_type(s, input), LAMBDA type :
    Then(expect_char(s, type.input, ";", "range type descriptor"), LAMBDA semi1 :
    Check(eat_stabs_identifier(s, semi1.input), "Cannot parse low part of range.",
      LAMBDA low :
    Then(expect_char(s, low.input, ";", "low range value"), LAMBDA semi2 :
    Check(eat_stabs_identifier(s, semi2.input), "Cannot parse high part of range.",
      LAMBDA high :
    Then(expect_char(s, high.input, ";", "high range value"), LAMBDA semi3 :
    Success([StabsType(info, "RANGE") EXCEPT
                !.child = <<type.value>>, !.low = low.value, !.high = high.value],
            semi3.input)))))))

\* The "for(i = 0; i < *base_class_count; i++)" loop of the STRUCT case.
parse_base_classes(s, input, i, base_class_count, base_classes) ==
    IF i >= base_class_count THEN Success(base_classes, input)
    ELSE Check(eat_char(s, eat_char(s, input).input),
               "Cannot parse base class visibility.", LAMBDA visibility :
         Check(eat_s32_literal(s, visibility.input),
               "Cannot parse base class offset.", LAMBDA offset :
         Then(expect_char(s, offset.input, ",", "base class section"), LAMBDA comma :
         Then(parse_stabs_type(s, comma.input), LAMBDA base_class_type :
         Then(expect_char(s, base_class_type.input, ";", "base class section"),
           LAMBDA semi :
         parse_base_classes(s, semi.input, i + 1, base_class_count,
             Append(base_classes,
                    [visibility |-> visibility_of(visibility.value),
                     offset |-> s32(offset.value),
                     type |-> base_class_type.value])))))))

\* What follows the type of a field (lines 572-606).
parse_field_suffix(s, before_field, input, field) ==
    IF field.name # "" /\ s[before_field] = "$"
    THEN Then(expect_char(s, input, ",", "field type"), LAMBDA comma :
         Check(eat_s32_literal(s, comma.input), "Cannot parse field offset.",
           LAMBDA offset_bits :
         Then(expect_char(s, offset_bits.input, ";", "field offset"), LAMBDA semi :
         Success([field EXCEPT !.offset_bits = offset_bits.value], semi.input))))
    ELSE IF Peek(s, input) = ":"
    THEN Check(eat_stabs_identifier(s, input + 1),
               "Cannot parse static field type name.", LAMBDA type_name :
         Then(expect_char(s, type_name.input, ";", "identifier"), LAMBDA semi :
         Success([field EXCEPT !.is_static = TRUE, !.type_name = type_name.value],
                 semi.input)))
    ELSE IF Peek(s, input) = ","
    THEN Check(eat_s32_literal(s, input + 1), "Cannot parse field offset.",
           LAMBDA offset_bits :
         Then(expect_char(s, offset_bits.input, ",", "field offset"), LAMBDA comma :
         Check(eat_s32_literal(s, comma.input), "Cannot parse field size.",
           LAMBDA size_bits :
         Then(expect_char(s, size_bits.input, ";", "field size"), LAMBDA semi :
         Success([field EXCEPT !.offset_bits = offset_bits.value,
                               !.size_bits = size_bits.value], semi.input)))))
    ELSE Failure("Expected ':' or ',', got '" \o Peek(s, input) \o "'.")

\* The optional "/<visibility>" of a field (lines 546-563); the value is the
\* visibility of the field.
parse_field_visibility(s, input) ==
    IF Peek(s, input) = "/"
    THEN Check(eat_char(s, input + 1), "Cannot parse field visibility.",
           LAMBDA visibility :
         IF visibility_of(visibility.value) = "INVALID"
         THEN Failure("invalid field visibility")
         ELSE Success(visibility_of(visibility.value), visibility.input))
    ELSE Success("NONE", input)

\* The while loop of parse_field_list.
parse_field_list_loop(s, input, fields) ==
    IF Peek(s, input) = NUL THEN Success(fields, input)
    ELSE IF Peek(s, input) = ";" THEN Success(fields, input + 1)
    ELSE Check(eat_stabs_identifier(s, input), "Cannot parse field name.",
           LAMBDA name :
         Then(expect_char(s, name.input, ":", "identifier"), LAMBDA colon :
         Then(parse_field_visibility(s, colon.input), LAMBDA visibility :
         IF Peek(s, visibility.input) = ":" THEN Success(fields, input)
         ELSE Then(parse_stabs_type(s, visibility.input), LAMBDA type :
              Then(parse_field_suffix(s, input, type.input,
                                      [Field EXCEPT !.name = name.value,
                                                    !.visibility = visibility.value,
                                                    !.type = type.value]),
                LAMBDA field :
              parse_field_list_loop(s, field.input, Append(fields, field.value)))))))

parse_field_list(s, input) == parse_field_list_loop(s, input, <<>>)

MemberFunction ==
    [type |-> NoValue, visibility |-> "NONE", is_const |-> FALSE,
     is_volatile |-> FALSE, modifier |-> "NONE", vtable_index |-> -1,
     virtual_type |-> <<>>]

\* The switch over *modifiers (lines 671-693).
with_modifiers(function, modifiers) ==
    [function EXCEPT
        !.is_const = IF modifiers \in {"A", "C"} THEN FALSE
                     ELSE IF modifiers \in {"B", "D"} THEN TRUE ELSE @,
        !.is_volatile = IF modifiers \in {"A", "B"} THEN FALSE
                        ELSE IF modifiers \in {"C", "D"} THEN TRUE ELSE @]

\* The switch over *flag (lines 697-723).
parse_member_function_flag(s, input, flag, function) ==
    IF flag = "." THEN Success([function EXCEPT !.modifier = "NONE"], input)
    ELSE IF flag = "?" THEN Success([function EXCEPT !.modifier = "STATIC"], input)
    ELSE IF flag = "*"
    THEN Check(eat_s32_literal(s, input), "Cannot parse vtable index.",
           LAMBDA vtable_index :
         Then(expect_char(s, vtable_index.input, ";", "virtual member function"),
           LAMBDA semi1 :
         Then(parse_stabs_type(s, semi1.input), LAMBDA virtual_type :
         Then(expect_char(s, virtual_type.input, ";", "virtual member function"),
           LAMBDA semi2 :
         Success([function EXCEPT !.modifier = "VIRTUAL",
                                  !.vtable_index = vtable_index.value,
                                  !.virtual_type = <<virtual_type.value>>],
                 semi2.input)))))
    ELSE Failure("Invalid member function type.")

\* The inner while loop of parse_member_functions.
parse_overloads(s, input, overloads) ==
    IF Peek(s, input) = NUL THEN Success(overloads, input)
    ELSE IF Peek(s, input) = ";" THEN Success(overloads, input + 1)
    ELSE Then(parse_stabs_type(s, input), LAMBDA type :
         Then(expect_char(s, type.input, ":", "member function"), LAMBDA colon :
         Check(eat_stabs_identifier(s, colon.input),
               "Invalid member function identifier.", LAMBDA identifier :
         Then(expect_char(s, identifier.input, ";", "member function"), LAMBDA semi :
         Check(eat_char(s, semi.input), "Cannot parse member function visibility.",
           LAMBDA visibility :
         IF visibility_of(visibility.value) = "INVALID"
         THEN Failure("Invalid visibility for member function.")
         ELSE Check(eat_char(s, visibility.input),
                    "Cannot parse member function modifiers.", LAMBDA modifiers :
              IF modifiers.value \notin {"A", "B", "C", "D", "?", "."}
              THEN Failure("Invalid member function modifiers.")
              ELSE Check(eat_char(s, modifiers.input),
                         "Cannot parse member function type.", LAMBDA flag :
                   Then(parse_member_function_flag(s, flag.input, flag.value,
                            with_modifiers(
                                [MemberFunction EXCEPT
                                    !.type = type.value,
                                    !.visibility = visibility_of(visibility.value)],
                                modifiers.value)),
                     LAMBDA function :
                   parse_overloads(s, function.input,
                                   Append(overloads, function.value))))))))))

\* The outer while loop of parse_member_functions.
parse_member_function_sets(s, input, member_functions) ==
    IF Peek(s, input) = NUL THEN Success(member_functions, input)
    ELSE IF Peek(s, input) = ";" THEN Success(member_functions, input + 1)
    ELSE Check(eat_stabs_identifier(s, input), "Cannot parse member function name.",
           LAMBDA name :
         Then(expect_char(s, name.input, ":", "member function"), LAMBDA colon1 :
         Then(expect_char(s, colon1.input, ":", "member function"), LAMBDA colon2 :
         Then(parse_overloads(s, colon2.input, <<>>), LAMBDA overloads :
         parse_member_function_sets(s, overloads.input,
             Append(member_functions,
                    [name |-> name.value, overloads |-> overloads.value]))))))

parse_member_functions(s, input) ==
    IF Peek(s, input) \in {",", ":"} THEN Success(<<>>, input)
    ELSE parse_member_function_sets(s, input, <<>>)

\* The base class section "!<count>,..." of a struct (lines 305-331).
parse_base_class_section(s, input) ==
    IF Peek(s, input) = "!"
    THEN Check(eat_s32_literal(s, input + 1), "Cannot parse base class count.",
           LAMBDA base_class_count :
         Then(expect_char(s, base_class_count.input, ",", "base class section"),
           LAMBDA comma :
         parse_base_classes(s, comma.input, 0, base_class_count.value, <<>>)))
    ELSE Success(<<>>, input)

parse_struct(info, s, input) ==
    Check(eat_s64_literal(s, input), "Cannot parse struct size.", LAMBDA struct_size :
    Then(parse_base_class_section(s, struct_size.input), LAMBDA base_classes :
    Then(parse_field_list(s, base_classes.input), LAMBDA fields :
    Then(parse_member_functions(s, fields.input), LAMBDA member_functions :
    Success([StabsType(info, "STRUCT") EXCEPT
                !.size = struct_size.value,
                !.base_classes = base_classes.value,
                !.fields = fields.value,
                !.member_functions = member_functions.value],
            member_functions.input)))))

parse_union(info, s, input) ==
    Check(eat_s64_literal(s, input), "Cannot parse struct size.", LAMBDA union_size :
    Then(parse_field_list(s, union_size.input), LAMBDA fields :
    Then(parse_member_functions(s, fields.input), LAMBDA member_functions :
    Success([StabsType(info, "UNION") EXCEPT
                !.size = union_size.value,
                !.fields = fields.value,
                !.member_functions = member_functions.value],
            member_functions.input))))
parse_cross_reference(info, s, input) ==
    Check(eat_char(s, input), "Cannot parse cross reference type.", LAMBDA c :
    IF c.value \notin {"e", "s", "u"} THEN Failure("Invalid cross reference type.")
    ELSE Then(eat_dodgy_stabs_identifier(s, c.input), LAMBDA identifier :
         Then(expect_char(s, identifier.input, ":", "cross reference"), LAMBDA colon :
         Success([StabsType(info, "CROSS_REFERENCE") EXCEPT
                     !.cross_reference_type =
                         CASE c.value = "e" -> "ENUM" [] c.value = "s" -> "STRUCT"
                           [] c.value = "u" -> "UNION",
                     !.identifier = identifier.value,
                     !.has_name = TRUE, !.name = identifier.value],
                 colon.input))))

parse_floating_point_builtin(info, s, input) ==
    Check(eat_s32_literal(s, input), "Cannot parse floating point built-in class.",
      LAMBDA fpclass :
    Then(expect_char(s, fpclass.input, ";", "floating point builtin"), LAMBDA semi1 :
    Check(eat_s32_literal(s, semi1.input), "Cannot parse floating point built-in.",
      LAMBDA bytes :
    Then(expect_char(s, bytes.input, ";", "floating point builtin"), LAMBDA semi2 :
    Check(eat_s32_literal(s, semi2.input), "Cannot parse floating point built-in.",
      LAMBDA value :
    Then(expect_char(s, value.input, ";", "floating point builtin"), LAMBDA semi3 :
    Success([StabsType(info, "FLOATING_POINT_BUILTIN") EXCEPT
                !.fpclass = fpclass.value, !.bytes = bytes.value],
            semi3.input)))))))

\* The "while(*input != '\0')" loop of the METHOD case.
parse_method_parameters(s, input, parameter_types) ==
    IF Peek(s, input) = NUL THEN Success(parameter_types, input)
    ELSE IF Peek(s, input) = ";" THEN Success(parameter_types, input + 1)
    ELSE Then(expect_char(s, input, ",", "method"), LAMBDA comma :
         Then(parse_stabs_type(s, comma.input), LAMBDA parameter_type :
         parse_method_parameters(s, parameter_type.input,
                                 Append(parameter_types, parameter_type.value))))

parse_method(info, s, input) ==
    IF Peek(s, input) = "#"
    THEN Then(parse_stabs_type(s, input + 1), LAMBDA return_type :
         Success([StabsType(info, "METHOD") EXCEPT !.child = <<return_type.value>>],
                 IF Peek(s, return_type.input) = ";"
                 THEN return_type.input + 1 ELSE return_type.input))
    ELSE Then(parse_stabs_type(s, input), LAMBDA class_type :
         Then(expect_char(s, class_type.input, ",", "method"), LAMBDA comma :
         Then(parse_stabs_type(s, comma.input), LAMBDA return_type :
         Then(parse_method_parameters(s, return_type.input, <<>>),
           LAMBDA parameter_types :
         Success([StabsType(info, "METHOD") EXCEPT
                     !.class_type = <<class_type.value>>,
                     !.child = <<return_type.value>>,
                     !.parameter_types = parameter_types.value],
                 parameter_types.input)))))

parse_type_attribute(info, s, input) ==
    IF Peek(s, input) \in Digits \/ Peek(s, input) = "("
    THEN Then(parse_stabs_type(s, input), LAMBDA class_type :
         Then(expect_char(s, class_type.input, ",",
                          "pointer to non-static data member"), LAMBDA comma :
         Then(parse_stabs_type(s, comma.input), LAMBDA member_type :
         Success([StabsType(info, "POINTER_TO_NON_STATIC_MEMBER") EXCEPT
                     !.class_type = <<class_type.value>>,
                     !.child = <<member_type.value>>],
                 member_type.input))))
    ELSE IF Peek(s, input) # "s"
    THEN Failure("Weird value following '@' type descriptor.")
    ELSE Check(eat_s64_literal(s, input + 1), "Cannot parse type attribute.",
           LAMBDA size_bits :
         Then(expect_char(s, size_bits.input, ";", "type attribute"), LAMBDA semi :
         Then(parse_stabs_type(s, semi.input), LAMBDA type :
         Success([StabsType(info, "TYPE_ATTRIBUTE") EXCEPT
                     !.size_bits = size_bits.value, !.child = <<type.value>>],
                 type.input))))

parse_builtin(info, s, input) ==
    Check(eat_s64_literal(s, input), "Cannot parse built-in.", LAMBDA type_id :
    Then(expect_char(s, type_id.input, ";", "builtin"), LAMBDA semi :
    Success([StabsType(info, "BUILTIN") EXCEPT !.type_id = type_id.value],
            semi.input)))

\* "switch(descriptor)" (lines 197-524); input is after the descriptor.
parse_type_body(info, descriptor, c, s, input) ==
    CASE descriptor \in {"TYPE_REFERENCE", "FUNCTION", "VOLATILE_QUALIFIER",
                         "CONST_QUALIFIER", "REFERENCE", "POINTER"} ->
             parse_one_type(info, descriptor, s, input)
      [] descriptor = "ARRAY" -> parse_array(info, s, input)
      [] descriptor = "ENUM" -> parse_enum(info, s, input)
      [] descriptor = "RANGE" -> parse_range(info, s, input)
      [] descriptor = "STRUCT" -> parse_struct(info, s, input)
      [] descriptor = "UNION" -> parse_union(info, s, input)
      [] descriptor = "CROSS_REFERENCE" -> parse_cross_reference(info, s, input)
      [] descriptor = "FLOATING_POINT_BUILTIN" ->
             parse_floating_point_builtin(info, s, input)
      [] descriptor = "METHOD" -> parse_method(info, s, input)
      [] descriptor = "TYPE_ATTRIBUTE" -> parse_type_attribute(info, s, input)
      [] descriptor = "BUILTIN" -> parse_builtin(info, s, input)
      [] OTHER -> Failure("Invalid type descriptor '" \o c \o "'.")

\* Lines 184-193: the descriptor in front of the body.
parse_type_descriptor(info, s, input) ==
    IF Peek(s, input) = NUL THEN Failure("Unexpected end of input.")
    ELSE IF Peek(s, input) \in Digits \/ Peek(s, input) = "("
    THEN parse_type_body(info, "TYPE_REFERENCE", Peek(s, input), s, input)
    ELSE parse_type_body(info, type_descriptor(Peek(s, input)), Peek(s, input),
                         s, input + 1)

parse_stabs_type(s, input) ==
    IF Peek(s, input) = NUL THEN Failure("Unexpected end of input.")
    ELSE Then(parse_type_number(s, input), LAMBDA header :
         IF ~header.value.has_body
         THEN Success(StabsType(header.value, "NONE"), header.input)
         ELSE parse_type_descriptor(header.value, s, header.input))

\* The first base class suffix "~%<type>;" (lines 110-118).
parse_first_base_class(s, input, type) ==
    IF type.descriptor = "STRUCT" /\ Peek(s, input) = "~" /\ Peek(s, input + 1) = "%"
    THEN Then(parse_stabs_type(s, input + 2), LAMBDA first_base_class :
         Then(expect_char(s, first_base_class.input, ";", "first base class suffix"),
           LAMBDA semi :
         Success([type EXCEPT !.first_base_class = <<first_base_class.value>>],
                 semi.input)))
    ELSE Success(type, input)

\* The live range suffix ";l(#start,#end)" (lines 121-132).
parse_live_range(s, input) ==
    IF Peek(s, input) = ";" /\ Peek(s, input + 1) = "l"
    THEN Then(expect_char(s, input + 2, "(", "live range suffix"), LAMBDA open :
         Then(expect_char(s, open.input, "#", "live range suffix"), LAMBDA hash1 :
         Check(eat_s32_literal(s, hash1.input), "Failed to parse live range suffix.",
           LAMBDA start :
         Then(expect_char(s, start.input, ",", "live range suffix"), LAMBDA comma :
         Then(expect_char(s, comma.input, "#", "live range suffix"), LAMBDA hash2 :
         Check(eat_s32_literal(s, hash2.input), "Failed to parse live range suffix.",
           LAMBDA end :
         expect_char(s, end.input, ")", "live range suffix")))))))
    ELSE Success(<<>>, input)

parse_top_level_stabs_type(s, input) ==
    Then(parse_stabs_type(s, input), LAMBDA type :
    Then(parse_first_base_class(s, type.input, type.value), LAMBDA with_base :
    Then(parse_live_range(s, with_base.input), LAMBDA live_range :
    Success(with_base.value, live_range.input))))

(***************************************************************************)
(* parse_stabs_symbol                                                      *)
(***************************************************************************)
\* The conversion (StabsSymbolDescriptor) of a descriptor character; the
\* names are those validate_symbol_descriptor accepts.
symbol_descriptor(c) ==
    CASE c = "_" -> "LOCAL_VARIABLE" [] c = "a" -> "REFERENCE_PARAMETER_A"
      [] c = "f" -> "LOCAL_FUNCTION" [] c = "F" -> "GLOBAL_FUNCTION"
      [] c = "G" -> "GLOBAL_VARIABLE" [] c = "P" -> "REGISTER_PARAMETER"
      [] c = "p" -> "VALUE_PARAMETER" [] c = "r" -> "REGISTER_VARIABLE"
      [] c = "S" -> "STATIC_GLOBAL_VARIABLE" [] c = "t" -> "TYPE_NAME"
      [] c = "T" -> "ENUM_STRUCT_OR_TYPE_TAG" [] c = "V" -> "STATIC_LOCAL_VARIABLE"
      [] c = "v" -> "REFERENCE_PARAMETER_V" [] OTHER -> "INVALID"

validate_symbol_descriptor(descriptor) == descriptor # "INVALID"

\* "while(*input != ',' && *input != '\0') input++;"
RECURSIVE skip_to_comma(_, _)
skip_to_comma(s, input) ==
    IF Peek(s, input) \in {",", NUL} THEN input ELSE skip_to_comma(s, input + 1)

\* The nested function suffix ",enclosing,function" (lines 52-60).
parse_nested_function_suffix(s, input, descriptor) ==
    IF descriptor \in {"LOCAL_FUNCTION", "GLOBAL_FUNCTION"} /\ Peek(s, input) = ","
    THEN Then(expect_char(s, skip_to_comma(s, input + 1), ",",
                          "nested function suffix"), LAMBDA comma :
         Success(<<>>, skip_to_comma(s, comma.input)))
    ELSE Success(<<>>, input)

\* Lines 62-77: nothing may follow the type; the symbol takes the type.
finish_stabs_symbol(s, input, name, descriptor, type) ==
    IF Peek(s, input) # NUL
    THEN Failure("Unknown data '" \o string(SubSeq(s, input, Len(s)))
                 \o "' at the end of the '" \o name \o "' stab.")
    ELSE Success([name |-> name, descriptor |-> descriptor,
                  type |-> [type EXCEPT
                               !.has_name =
                                   IF descriptor \in {"TYPE_NAME",
                                                      "ENUM_STRUCT_OR_TYPE_TAG"}
                                   THEN TRUE ELSE @,
                               !.name =
                                   IF descriptor \in {"TYPE_NAME",
                                                      "ENUM_STRUCT_OR_TYPE_TAG"}
                                   THEN name ELSE @,
                               !.is_typedef = descriptor = "TYPE_NAME",
                               !.is_root = TRUE]],
                 input)

\* Lines 40-60: the symbol after its descriptor.
parse_symbol_type(s, input, name, descriptor, c) ==
    IF ~validate_symbol_descriptor(descriptor)
    THEN Failure("Invalid symbol descriptor '" \o c \o "'.")
    ELSE IF Peek(s, input) = NUL THEN Failure("Unexpected end of input.")
    ELSE Then(parse_top_level_stabs_type(s, IF Peek(s, input) = "t" THEN input + 1
                                            ELSE input), LAMBDA type :
         Then(parse_nested_function_suffix(s, type.input, descriptor), LAMBDA suffix :
         finish_stabs_symbol(s, suffix.input, name, descriptor, type.value)))

\* The result carries the callee's own cursor: the parameter is passed by
\* value (line 21), so the caller's pointer is not moved by the call.
parse_stabs_symbol(s, input) ==
    Then(eat_dodgy_stabs_identifier(s, input), LAMBDA name :
    Then(expect_char(s, name.input, ":", "identifier"), LAMBDA colon :
    IF Peek(s, colon.input) = NUL THEN Failure("Unexpected end of input.")
    ELSE IF Peek(s, colon.input) \in Digits \/ Peek(s, colon.input) = "("
    THEN parse_symbol_type(s, colon.input, name.value, "LOCAL_VARIABLE",
                           Peek(s, colon.input))
    ELSE parse_symbol_type(s, colon.input + 1, name.value,
                           symbol_descriptor(Peek(s, colon.input)),
                           Peek(s, colon.input))))

(***************************************************************************)
(* parse_symbols (the second file of unnamed/part_001)                     *)
(***************************************************************************)
NameColonTypeCodes ==
    {"N_GSYM", "N_FUN", "N_STSYM", "N_LCSYM", "N_RSYM", "N_LSYM", "N_PSYM"}
IgnoredCodes == {"STAB", "N_OPT", "N_BINCL"}
UnhandledCodes ==
    {"N_FNAME", "N_MAIN", "N_PC", "N_NSYMS", "N_NOMAP", "N_OBJ", "N_M2C", "N_SLINE",
     "N_DSLINE", "N_BSLINE", "N_EFD", "N_EHDECL", "N_CATCH", "N_SSYM", "N_EINCL",
     "N_ENTRY", "N_EXCL", "N_SCOPE", "N_BCOMM", "N_ECOMM", "N_ECOML", "N_NBTEXT",
     "N_NBDATA", "N_NBBSS", "N_NBSTS", "N_NBLCS", "N_LENG"}

STRICT_PARSING == "STRICT_PARSING"

\* mdebug::Symbol: is_stabs(), code() and string.
Symbol(is_stabs, code, str) == [is_stabs |-> is_stabs, code |-> code, string |-> str]

\* ParsedSymbol; raw is the position of the record it points at.
ParsedSymbol(type, raw) == [type |-> type, raw |-> raw, name_colon_type |-> NoValue]

\* "const char* input = symbol_string.c_str(); parse_stabs_symbol(input);":
\* the caller's input after the call.
input_after_parse(input, parse_result) == input

\* A parse_symbols that leaves the flags alone.
keep_parser_flags(flags) == flags

\* "parser_flags &= ~STRICT_PARSING"
clear_strict_parsing(flags) == flags \ {STRICT_PARSING}

\* What one pass through the loop body does to the locals and the flags.
Continue(prefix, output, flags, warnings) ==
    [prefix |-> prefix, output |-> output, parser_flags |-> flags,
     warnings |-> warnings, returned |-> FALSE, result |-> NoValue]
Return(prefix, output, flags, warnings, message) ==
    [prefix |-> prefix, output |-> output, parser_flags |-> flags,
     warnings |-> warnings, returned |-> TRUE,
     result |-> [success |-> FALSE, message |-> message, value |-> <<>>]]

\* The message of the CCC_FAILURE / CCC_WARN of lines 859-866.
unknown_data(symbol_string, input, name) ==
    "Unknown data '" \o string(SubSeq(symbol_string, input, Len(symbol_string)))
    \o "' at the end of the '" \o name \o "' stab."

\* Lines 856-879: "const char* input = symbol_string.c_str();" and what
\* parse_symbols does with the result of the parse.
handle_parse_result(raw, symbol_string, input, parse_result, output, flags, warnings) ==
    IF parse_result.success
    THEN IF Peek(symbol_string, input_after_parse(input, parse_result)) # NUL
         THEN IF STRICT_PARSING \in flags
              THEN Return(<<>>, output, flags, warnings,
                          unknown_data(symbol_string,
                                       input_after_parse(input, parse_result),
                                       parse_result.value.name))
              ELSE Continue(<<>>,
                            Append(output, [ParsedSymbol("NAME_COLON_TYPE", raw) EXCEPT
                                               !.name_colon_type = parse_result.value]),
                            flags,
                            Append(warnings,
                                   unknown_data(symbol_string,
                                                input_after_parse(input, parse_result),
                                                parse_result.value.name)))
         ELSE Continue(<<>>,
                       Append(output, [ParsedSymbol("NAME_COLON_TYPE", raw) EXCEPT
                                          !.name_colon_type = parse_result.value]),
                       flags, warnings)
    ELSE IF parse_result.message = STAB_TRUNCATED_ERROR_MESSAGE
    THEN Continue(<<>>, output, clear_strict_parsing(flags),
                  Append(warnings, STAB_TRUNCATED_ERROR_MESSAGE
                                   \o " Symbol string: " \o string(symbol_string)))
    ELSE Return(<<>>, output, flags, warnings, parse_result.message)

\* Lines 853-857: a complete symbol string is parsed from its first character.
parse_name_colon_type(raw, symbol_string, output, flags, warnings) ==
    handle_parse_result(raw, symbol_string, 1, parse_stabs_symbol(symbol_string, 1),
                        output, flags, warnings)

\* The two cases with the types of the parsed symbols exchanged.
block_symbol_type_exchanged(code) == IF code = "N_LBRAC" THEN "RBRAC" ELSE "LBRAC"

\* The cases N_LBRAC and N_RBRAC (lines 897-908): the type of the parsed
\* symbol.
block_symbol_type(code) == IF code = "N_LBRAC" THEN "LBRAC" ELSE "RBRAC"

\* A continuation that keeps the backslash in the prefix.
with_backslash(symbol_string) == symbol_string

\* Line 851: "std::string(symbol.string, symbol.string + strlen(symbol.string) - 1)".
without_backslash(symbol_string) == SubSeq(symbol_string, 1, Len(symbol_string) - 1)

\* The body of the range-for loop (lines 839-955).
parse_symbols_body(raw, symbol, prefix, output, flags, warnings) ==
    IF ~symbol.is_stabs
    THEN Continue(prefix, Append(output, ParsedSymbol("NON_STABS", raw)), flags, warnings)
    ELSE IF symbol.code \in NameColonTypeCodes
    THEN IF symbol.string # <<>>
         THEN IF symbol.string[Len(symbol.string)] = "\\"
              THEN Continue(prefix \o without_backslash(symbol.string),
                            output, flags, warnings)
              ELSE parse_name_colon_type(raw, prefix \o symbol.string, output, flags,
                                         warnings)
         ELSE IF prefix # <<>>
         THEN Return(prefix, output, flags, warnings, "Invalid STABS continuation.")
         ELSE IF symbol.code = "N_FUN"
         THEN Continue(prefix, Append(output, ParsedSymbol("FUNCTION_END", raw)),
                       flags, warnings)
         ELSE Continue(prefix, output, flags, warnings)
    ELSE IF symbol.code = "N_SOL"
    THEN Continue(prefix, Append(output, ParsedSymbol("SUB_SOURCE_FILE", raw)),
                  flags, warnings)
    ELSE IF symbol.code \in {"N_LBRAC", "N_RBRAC"}
    THEN Continue(prefix, Append(output, ParsedSymbol(block_symbol_type(symbol.code), raw)),
                  flags, warnings)
    ELSE IF symbol.code = "N_SO"
    THEN Continue(prefix, Append(output, ParsedSymbol("SOURCE_FILE", raw)),
                  flags, warnings)
    ELSE IF symbol.code \in UnhandledCodes
    THEN Continue(prefix, output, flags,
                  Append(warnings, "Unhandled " \o symbol.code \o " symbol: "
                                   \o string(symbol.string)))
    ELSE Continue(prefix, output, flags, warnings)

\* mark_duplicate_symbols begins with "return;".
mark_duplicate_symbols(symbols) == symbols

\* One iteration of the loop over input.
parse_symbols_iteration ==
    /\ ps_pc = "loop"
    /\ ps_index <= Len(ps_input)
    /\ \E r \in {parse_symbols_body(ps_index, ps_input[ps_index], ps_prefix,
                                    ps_output, parser_flags, ps_warnings)} :
          /\ ps_prefix' = r.prefix
          /\ ps_output' = r.output
          /\ parser_flags' = r.parser_flags
          /\ ps_warnings' = r.warnings
          /\ ps_result' = r.result
          /\ ps_pc' = IF r.returned THEN "returned" ELSE "loop"
          /\ ps_index' = IF r.returned THEN ps_index ELSE ps_index + 1
    /\ UNCHANGED <<ps_input, ddVars, cmpVars, astVars, extVars>>

\* The loop is over: mark_duplicate_symbols(output); return output.
parse_symbols_return ==
    /\ ps_pc = "loop"
    /\ ps_index > Len(ps_input)
    /\ ps_output' = mark_duplicate_symbols(ps_output)
    /\ ps_result' = [success |-> TRUE, message |-> "", value |-> ps_output']
    /\ ps_pc' = "returned"
    /\ UNCHANGED <<ps_input, ps_index, ps_prefix, parser_flags, ps_warnings,
                   ddVars, cmpVars, astVars, extVars>>

(***************************************************************************)
(* The records parse_symbols is run on: symbol strings of the importer     *)
(* tests and strings that are truncated, malformed or split in two.        *)
(***************************************************************************)
MaxRecords == 3

\* "Enum:t(1,1)=e;"
EnumString ==
    <<"E", "n", "u", "m", ":", "t", "(", "1", ",", "1", ")", "=", "e", ";">>

\* "Truncated"
TruncatedString ==
    <<"T", "r", "u", "n", "c", "a", "t", "e", "d">>

\* "p:t2=*3=xsFoo"
TruncatedCrossReferenceString ==
    <<"p", ":", "t", "2", "=", "*", "3", "=", "x", "s", "F", "o", "o">>

\* "bad:t1=?"
InvalidDescriptorString ==
    <<"b", "a", "d", ":", "t", "1", "=", "?">>

\* "j:t1=*2zz"
TrailingDataString ==
    <<"j", ":", "t", "1", "=", "*", "2", "z", "z">>

\* "Enum:t(1,1)=\"
ContinuedString ==
    <<"E", "n", "u", "m", ":", "t", "(", "1", ",", "1", ")", "=", "\\">>

\* "e;"
ContinuationString ==
    <<"e", ";">>

\* "line"
SlineString ==
    <<"l", "i", "n", "e">>

RecordPool ==
    {Symbol(TRUE, "N_LSYM", EnumString),
     Symbol(TRUE, "N_LSYM", TruncatedString),
     Symbol(TRUE, "N_LSYM", TruncatedCrossReferenceString),
     Symbol(TRUE, "N_LSYM", InvalidDescriptorString),
     Symbol(TRUE, "N_LSYM", TrailingDataString),
     Symbol(TRUE, "N_LSYM", ContinuedString),
     Symbol(TRUE, "N_LSYM", ContinuationString),
     Symbol(TRUE, "N_FUN", <<>>),
     Symbol(TRUE, "N_LBRAC", <<>>),
     Symbol(TRUE, "N_SLINE", SlineString),
     Symbol(FALSE, "NON_STABS", <<>>)}

\* The flags a caller passes: strict or not, with or without another flag.
ParserFlags == {{}, {STRICT_PARSING}, {STRICT_PARSING, "OTHER_FLAG"}}

ParseInit ==
    /\ \E n \in 0..MaxRecords : ps_input \in [1..n -> RecordPool]
    /\ parser_flags \in ParserFlags
    /\ ps_index = 1
    /\ ps_prefix = <<>>
    /\ ps_output = <<>>
    /\ ps_warnings = <<>>
    /\ ps_pc = "loop"
    /\ ps_result = NoValue
    /\ DedupIdle /\ CompareIdle /\ AstIdle /\ ExtIdle

ParseNext ==
    \/ parse_symbols_iteration
    \/ parse_symbols_return

SpecParse == ParseInit /\ [][ParseNext]_vars

(***************************************************************************)
(* Properties of parse_symbols.                                            *)
(***************************************************************************)
\* The loop is about to handle a record that completes a symbol string.
AtCompleteString ==
    /\ ps_pc = "loop"
    /\ ps_index <= Len(ps_input)
    /\ ps_input[ps_index].is_stabs
    /\ ps_input[ps_index].code \in NameColonTypeCodes
    /\ ps_input[ps_index].string # <<>>
    /\ ps_input[ps_index].string[Len(ps_input[ps_index].string)] # "\\"

\* The string handed to parse_stabs_symbol, and what parsing it gives.
SymbolString == ps_prefix \o ps_input[ps_index].string
ParseResult == parse_stabs_symbol(SymbolString, 1)

Truncated == AtCompleteString /\ ~ParseResult.success
             /\ ParseResult.message = STAB_TRUNCATED_ERROR_MESSAGE
OtherError == AtCompleteString /\ ~ParseResult.success
              /\ ParseResult.message # STAB_TRUNCATED_ERROR_MESSAGE
\* The string parsed, and the parser's cursor stopped at its end.
ParsedToTheEnd == AtCompleteString /\ ParseResult.success
                  /\ ParseResult.input = Len(SymbolString) + 1

TruncationWarning(symbol_string) ==
    STAB_TRUNCATED_ERROR_MESSAGE \o " Symbol string: " \o string(symbol_string)

NameColonType(raw, symbol) ==
    [type |-> "NAME_COLON_TYPE", raw |-> raw, name_colon_type |-> symbol]

\* C7: when the parse of a symbol string fails with the truncation error,
\* the loop iteration appends one warning that holds the symbol string,
\* appends nothing to the output, clears STRICT_PARSING, and goes on to the
\* next record; and no step of the call sets STRICT_PARSING once it is clear.
C7_Step ==
    /\ Truncated =>
          /\ ps_warnings' = Append(ps_warnings, TruncationWarning(SymbolString))
          /\ ps_output' = ps_output
          /\ STRICT_PARSING \notin parser_flags'
          /\ ps_pc' = "loop"
          /\ ps_index' = ps_index + 1
    /\ STRICT_PARSING \notin parser_flags => STRICT_PARSING \notin parser_flags'

C7_TruncationClearsStrict == [][C7_Step]_vars

\* A strict call met a truncated string first, warned, dropped it, cleared
\* the flag and then handled the following record.
C7_Witness ==
    /\ Len(ps_input) >= 2
    /\ ps_input[1].string = TruncatedString
    /\ "OTHER_FLAG" \in parser_flags
    /\ STRICT_PARSING \notin parser_flags
    /\ ps_index >= 3
    /\ ps_warnings # <<>>
    /\ ps_warnings[1] = TruncationWarning(TruncatedString)
    /\ ps_output # <<>>
    /\ ps_output[1].raw = 2

\* C8: a string that parses and is read to its end gives a NameColonType
\* symbol, no failure and no warning, with STRICT_PARSING set or not; a
\* failure or a warning on a string that parses needs unread input.
C8_Step ==
    /\ ParsedToTheEnd =>
          /\ ps_pc' = "loop"
          /\ ps_warnings' = ps_warnings
          /\ ps_output' = Append(ps_output, NameColonType(ps_index, ParseResult.value))
    /\ (AtCompleteString /\ ParseResult.success
        /\ (ps_pc' = "returned" \/ ps_warnings' # ps_warnings))
          => ParseResult.input <= Len(SymbolString)

C8_FailsOnlyOnUnreadInput == [][C8_Step]_vars

\* C9: an error other than truncation in one symbol string ends the call
\* with that error when STRICT_PARSING is set; when it is clear the
\* iteration warns, drops the symbol and goes on to the next record.
C9_Step ==
    OtherError =>
        IF STRICT_PARSING \in parser_flags
        THEN /\ ps_pc' = "returned"
             /\ ~ps_result'.success
             /\ ps_result'.message = ParseResult.message
        ELSE /\ ps_pc' = "loop"
             /\ ps_index' = ps_index + 1
             /\ ps_output' = ps_output
             /\ Len(ps_warnings') = Len(ps_warnings) + 1

C9_LenientDropsAndContinues == [][C9_Step]_vars

(***************************************************************************)
(* stabs_symbol_to_ast, stabs_type_to_ast and stabs_field_to_ast           *)
(* (ccc/ast.cpp).  The recursion is run one call at a time: ast_stack      *)
(* holds an activation record per call that has not returned, with the     *)
(* arguments, the place the call has got to and the node it is building.   *)
(***************************************************************************)
DepthLimit == 1000

\* A recursion limit twice as high.
depth_exceeded_late(depth) == depth > DepthLimit + DepthLimit

\* "if(depth > 1000)"
depth_exceeded(depth) == depth > DepthLimit

\* The operators / and % of C++ on s32: the quotient is rounded towards zero.
c_div(a, b) == IF a >= 0 THEN a \div b ELSE -((-a) \div b)
c_mod(a, b) == a - b * c_div(a, b)

TypeFrame(type, absolute_parent_offset_bytes, depth) ==
    [fn |-> "stabs_type_to_ast", type |-> type, field |-> NoValue,
     absolute_parent_offset_bytes |-> absolute_parent_offset_bytes,
     depth |-> depth, pc |-> "enter", node |-> NoValue, i |-> 1, j |-> 1]

FieldFrame(field, absolute_parent_offset_bytes, depth) ==
    [fn |-> "stabs_field_to_ast", type |-> NoValue, field |-> field,
     absolute_parent_offset_bytes |-> absolute_parent_offset_bytes,
     depth |-> depth, pc |-> "enter", node |-> NoValue, i |-> 1, j |-> 1]

\* What a call does next: return a value, call and wait, throw, or stop the
\* process (a failed verify or assert).
AstReturn(value) == [kind |-> "return", value |-> value]
AstCall(caller, callee) == [kind |-> "call", caller |-> caller, callee |-> callee]
AstThrow(what) == [kind |-> "throw", what |-> what]
AstAbort(message) == [kind |-> "abort", message |-> message]

\* A recursive call stabs_type_to_ast(type, stabs_types, offset, depth + 1),
\* after which the caller goes on at pc.
CallType(frame, pc, type) ==
    AstCall([frame EXCEPT !.pc = pc],
            TypeFrame(type, frame.absolute_parent_offset_bytes, frame.depth + 1))

\* The loops of the STRUCT and UNION cases (lines 147-170, 178-194): the
\* next call to make, or the finished node.
RECURSIVE struct_or_union_loops(_)
struct_or_union_loops(frame) ==
    LET type == frame.type
    IN IF frame.pc = "base_classes"
       THEN IF frame.i <= Len(type.base_classes)
            THEN CallType(frame, "base_classes", type.base_classes[frame.i].type)
            ELSE struct_or_union_loops([frame EXCEPT !.pc = "fields", !.i = 1])
       ELSE IF frame.pc = "fields"
       THEN IF frame.i <= Len(type.fields)
            THEN AstCall(frame, FieldFrame(type.fields[frame.i],
                                           frame.absolute_parent_offset_bytes,
                                           frame.depth + 1))
            ELSE struct_or_union_loops([frame EXCEPT !.pc = "member_functions",
                                                     !.i = 1, !.j = 1])
       ELSE IF frame.i <= Len(type.member_functions)
       THEN IF frame.j <= Len(type.member_functions[frame.i].overloads)
            THEN CallType(frame, "member_functions",
                          type.member_functions[frame.i].overloads[frame.j].type)
            ELSE struct_or_union_loops([frame EXCEPT !.i = frame.i + 1, !.j = 1])
       ELSE AstReturn(frame.node)

\* The loop over type.method.parameter_types (lines 212-218).
method_parameters_loop(frame) ==
    IF frame.i <= Len(frame.type.parameter_types)
    THEN CallType(frame, "parameter_types", frame.type.parameter_types[frame.i])
    ELSE AstReturn(frame.node)

\* "CCC_BADTYPELOOKUP(%d)"
bad_type_lookup(type_number) == "CCC_BADTYPELOOKUP(" \o ToString(type_number) \o ")"

\* The test of line 72 with the comparison of the name turned round.
substitutes_empty_type_name(type, depth) ==
    depth > 0 /\ type.has_name /\ (type.name = "" \/ type.name = " ")

\* The test of line 72: a type below the root that has a name is shown by
\* its name.
substitutes_type_name(type, depth) ==
    depth > 0 /\ type.has_name /\ type.name # "" /\ type.name # " "

\* An entry of stabs_types whose pointer is null.
NullEntry == [null |-> TRUE]

\* The lookup of line 80 that trusts every entry it finds.
lookup_misses_absent_only(type, stabs_types) ==
    \/ type.anonymous
    \/ type.type_number \notin DOMAIN stabs_types

\* The condition of line 80: the type has no number, or stabs_types has no
\* entry for it, or the entry is null or has no body.
lookup_misses(type, stabs_types) ==
    \/ type.anonymous
    \/ type.type_number \notin DOMAIN stabs_types
    \/ stabs_types[type.type_number] = NullEntry
    \/ ~stabs_types[type.type_number].has_body

\* The test of line 131 with the bound one too low.
range_is_shown_below(depth) == depth >= 1

\* The test of line 131: a range type is shown, as a type name, from depth 2 on.
range_is_shown(depth) == depth >= 2

\* stabs_type_to_ast from its first line to its first recursive call.
stabs_type_to_ast_enter(frame, stabs_types) ==
    LET type == frame.type
        depth == frame.depth
        struct_or_union ==
            [InlineStructOrUnion EXCEPT !.is_union = type.descriptor = "UNION",
                                        !.size_bits = type.size * 8]
    IN IF depth_exceeded(depth) THEN AstThrow("CCC_BADRECURSION")
       ELSE IF substitutes_type_name(type, depth)
       THEN AstReturn(TypeName(type.name))
       ELSE IF ~type.has_body
       THEN IF lookup_misses(type, stabs_types)
            THEN AstReturn(TypeName(bad_type_lookup(type.type_number)))
            ELSE CallType(frame, "lookup", stabs_types[type.type_number])
       ELSE CASE type.descriptor \in {"TYPE_REFERENCE", "ARRAY", "FUNCTION", "POINTER",
                                      "REFERENCE", "TYPE_ATTRIBUTE"} ->
                     CallType(frame, "child", type.child[1])
              [] type.descriptor = "ENUM" -> AstReturn(InlineEnum(type.enum_fields))
              [] type.descriptor = "RANGE" ->
                     IF range_is_shown(depth)
                     THEN AstReturn(TypeName(IF type.has_name THEN type.name
                                             ELSE "CCC_RANGE"))
                     ELSE AstReturn(NullNode)
              [] type.descriptor = "STRUCT" ->
                     struct_or_union_loops([frame EXCEPT !.node = struct_or_union,
                                                         !.pc = "base_classes"])
              [] type.descriptor = "UNION" ->
                     struct_or_union_loops([frame EXCEPT !.node = struct_or_union,
                                                         !.pc = "fields"])
              [] type.descriptor = "CROSS_REFERENCE" ->
                     AstReturn(TypeName(type.identifier))
              [] type.descriptor = "METHOD" -> CallType(frame, "return_type", type.child[1])
              [] type.descriptor = "BUILT_IN" ->
                     IF depth >= 2 THEN AstReturn(TypeName("CCC_BUILTIN"))
                     ELSE AstReturn(NullNode)
              [] OTHER -> AstReturn(TypeName("CCC_BADTYPEINFO"))

\* The ARRAY case after the element type came back (lines 103-112).
array_of(type, element_type) ==
    IF /\ type.index_type # <<>>
       /\ type.index_type[1].descriptor = "RANGE"
       /\ type.index_type[1].low_maybe_wrong = 0
    THEN AstReturn(Array(element_type, type.index_type[1].high_maybe_wrong + 1))
    ELSE AstAbort("Invalid index type for array.")

\* stabs_type_to_ast from the return of a recursive call to the next one.
stabs_type_to_ast_resume(frame, result) ==
    LET type == frame.type
        node == frame.node
    IN IF frame.pc = "lookup" THEN AstReturn(result)
       ELSE IF frame.pc = "fields" /\ type.descriptor = "STRUCT"
       THEN struct_or_union_loops(
                [frame EXCEPT !.node.fields = Append(node.fields, result),
                              !.i = frame.i + 1])
       ELSE IF result = NullNode THEN AstReturn(NullNode)
       ELSE IF frame.pc = "child"
       THEN CASE type.descriptor = "TYPE_REFERENCE" -> AstReturn(result)
              [] type.descriptor = "ARRAY" -> array_of(type, result)
              [] type.descriptor = "FUNCTION" -> AstReturn(Function(result))
              [] type.descriptor = "POINTER" -> AstReturn(Pointer(result))
              [] type.descriptor = "REFERENCE" -> AstReturn(Reference(result))
              [] type.descriptor = "TYPE_ATTRIBUTE" ->
                     AstReturn([result EXCEPT !.size_bits = type.size_bits])
       ELSE IF frame.pc = "base_classes"
       THEN IF result.descriptor # "TYPE_NAME"
            THEN AstAbort("assert(base_class_type->descriptor == TYPE_NAME)")
            ELSE struct_or_union_loops(
                     [frame EXCEPT
                         !.node.base_classes =
                             Append(node.base_classes,
                                    BaseClass(type.base_classes[frame.i].visibility,
                                              type.base_classes[frame.i].offset,
                                              result.type_name)),
                         !.i = frame.i + 1])
       ELSE IF frame.pc = "fields"
       THEN struct_or_union_loops(
                [frame EXCEPT !.node.fields = Append(node.fields, result),
                              !.i = frame.i + 1])
       ELSE IF frame.pc = "member_functions"
       THEN struct_or_union_loops(
                [frame EXCEPT
                    !.node.member_functions =
                        Append(node.member_functions,
                               [result EXCEPT !.name = type.member_functions[frame.i].name]),
                    !.j = frame.j + 1])
       ELSE IF frame.pc = "return_type"
       THEN method_parameters_loop(
                [frame EXCEPT !.node = [Function(result) EXCEPT !.has_parameters = TRUE],
                              !.pc = "parameter_types", !.i = 1])
       ELSE method_parameters_loop(
                [frame EXCEPT !.node.parameters = Append(node.parameters, result),
                              !.i = frame.i + 1])

\* "(field.name == " ") ? "" : field.name", the same for a symbol's name.
name_or_empty(name) == IF name = " " THEN "" ELSE name

\* The test of line 273 without its second half.
is_bitfield_by_offset(field) == c_mod(field.offset_bits, 8) # 0

is_bitfield(field) == c_mod(field.offset_bits, 8) # 0 \/ c_mod(field.size_bits, 8) # 0

\* stabs_field_to_ast up to its call of stabs_type_to_ast.
stabs_field_to_ast_enter(frame) ==
    LET field == frame.field
        relative_offset_bytes == c_div(field.offset_bits, 8)
        absolute_offset_bytes == frame.absolute_parent_offset_bytes + relative_offset_bytes
    IN AstCall([frame EXCEPT !.pc = "type"],
               TypeFrame(field.type, absolute_offset_bytes, frame.depth + 1))

\* stabs_field_to_ast after that call.
stabs_field_to_ast_resume(frame, result) ==
    LET field == frame.field
        relative_offset_bytes == c_div(field.offset_bits, 8)
        absolute_offset_bytes == frame.absolute_parent_offset_bytes + relative_offset_bytes
    IN IF is_bitfield(field)
       THEN AstReturn([BitField(result) EXCEPT
                          !.name = name_or_empty(field.name),
                          !.relative_offset_bytes = relative_offset_bytes,
                          !.absolute_offset_bytes = absolute_offset_bytes,
                          !.size_bits = field.size_bits,
                          !.bitfield_offset_bits = c_mod(field.offset_bits, 8),
                          !.storage_class = IF field.is_static THEN "STATIC" ELSE @])
       ELSE IF result = NullNode THEN AstAbort("child is a null pointer")
       ELSE AstReturn([result EXCEPT
                          !.name = name_or_empty(field.name),
                          !.relative_offset_bytes = relative_offset_bytes,
                          !.absolute_offset_bytes = absolute_offset_bytes,
                          !.size_bits = field.size_bits,
                          !.storage_class = IF field.is_static THEN "STATIC" ELSE @])

\* The effect of one step of the innermost call on the stack.  A throw
\* unwinds every call up to the catch block of stabs_symbol_to_ast, which
\* returns a TypeName holding e.what() (lines 58-62).
ast_step(outcome) ==
    /\ ast_stack' =
           CASE outcome.kind = "return" -> SubSeq(ast_stack, 1, Len(ast_stack) - 1)
             [] outcome.kind = "call" ->
                    Append([ast_stack EXCEPT ![Len(ast_stack)] = outcome.caller],
                           outcome.callee)
             [] OTHER -> <<>>
    /\ ast_ret' = IF outcome.kind = "return" THEN outcome.value ELSE NoValue
    /\ ast_pc' = CASE outcome.kind = "throw" -> "caught"
                   [] outcome.kind = "abort" -> "aborted"
                   [] OTHER -> "run"
    /\ ast_result' = IF outcome.kind = "throw" THEN TypeName(outcome.what)
                     ELSE ast_result
    /\ UNCHANGED <<ast_symbol, ast_stabs_types, ddVars, cmpVars, psVars, extVars>>

InnermostCall == ast_stack[Len(ast_stack)]

\* stabs_symbol_to_ast is called (lines 41-49).
stabs_symbol_to_ast_call ==
    /\ ast_pc = "call"
    /\ IF ~ast_symbol.type.has_body
       THEN /\ ast_result' = TypeName(ast_symbol.name)
            /\ ast_pc' = "returned"
            /\ ast_stack' = <<>>
       ELSE /\ ast_stack' = <<TypeFrame(ast_symbol.type, 0, 0)>>
            /\ ast_pc' = "run"
            /\ ast_result' = ast_result
    /\ UNCHANGED <<ast_symbol, ast_stabs_types, ast_ret, ddVars, cmpVars, psVars, extVars>>

\* A call of stabs_type_to_ast begins.
stabs_type_to_ast_begin ==
    /\ ast_pc = "run" /\ ast_stack # <<>> /\ ast_ret = NoValue
    /\ InnermostCall.fn = "stabs_type_to_ast"
    /\ ast_step(stabs_type_to_ast_enter(InnermostCall, ast_stabs_types))

\* A call of stabs_type_to_ast gets the result of a call it made.
stabs_type_to_ast_continue ==
    /\ ast_pc = "run" /\ ast_stack # <<>> /\ ast_ret # NoValue
    /\ InnermostCall.fn = "stabs_type_to_ast"
    /\ ast_step(stabs_type_to_ast_resume(InnermostCall, ast_ret))

\* A call of stabs_field_to_ast begins.
stabs_field_to_ast_begin ==
    /\ ast_pc = "run" /\ ast_stack # <<>> /\ ast_ret = NoValue
    /\ InnermostCall.fn = "stabs_field_to_ast"
    /\ ast_step(stabs_field_to_ast_enter(InnermostCall))

\* A call of stabs_field_to_ast gets the type of the field.
stabs_field_to_ast_continue ==
    /\ ast_pc = "run" /\ ast_stack # <<>> /\ ast_ret # NoValue
    /\ InnermostCall.fn = "stabs_field_to_ast"
    /\ ast_step(stabs_field_to_ast_resume(InnermostCall, ast_ret))

\* The outermost stabs_type_to_ast returned to stabs_symbol_to_ast (lines 50-57).
stabs_symbol_to_ast_return ==
    /\ ast_pc = "run" /\ ast_stack = <<>> /\ ast_ret # NoValue
    /\ ast_result' =
           IF ast_ret = NullNode THEN NullNode
           ELSE [ast_ret EXCEPT
                    !.name = name_or_empty(ast_symbol.name),
                    !.storage_class = IF ast_symbol.descriptor = "TYPE_NAME"
                                      THEN "TYPEDEF" ELSE @]
    /\ ast_pc' = "returned"
    /\ ast_ret' = NoValue
    /\ UNCHANGED <<ast_symbol, ast_stabs_types, ast_stack, ddVars, cmpVars, psVars, extVars>>

AstNext ==
    \/ stabs_symbol_to_ast_call
    \/ stabs_type_to_ast_begin
    \/ stabs_type_to_ast_continue
    \/ stabs_field_to_ast_begin
    \/ stabs_field_to_ast_continue
    \/ stabs_symbol_to_ast_return

(***************************************************************************)
(* The symbols the translation is run on, each with the stabs_types map of *)
(* its file.  ccc/ast.cpp keys the map by a plain type number.             *)
(***************************************************************************)
\* A type with a body and no number, a type given by number only, a type
\* with a number and a body.
Body(descriptor) ==
    StabsType([anonymous |-> TRUE, has_body |-> TRUE, type_number |-> -1], descriptor)
ByNumber(type_number) ==
    StabsType([anonymous |-> FALSE, has_body |-> FALSE, type_number |-> type_number],
              "NONE")
Numbered(type_number, type) ==
    [type EXCEPT !.anonymous = FALSE, !.type_number = type_number]
Named(name, type) == [type EXCEPT !.has_name = TRUE, !.name = name]
Of(descriptor, type) == [Body(descriptor) EXCEPT !.child = <<type>>]
StabsField(name, type, offset_bits, size_bits) ==
    [Field EXCEPT !.name = name, !.type = type, !.offset_bits = offset_bits,
                  !.size_bits = size_bits]
StructOf(descriptor, size, fields) ==
    [Body(descriptor) EXCEPT !.size = size, !.fields = fields]
RangeOf(low, high) ==
    [Body("RANGE") EXCEPT !.low_maybe_wrong = low, !.high_maybe_wrong = high]
StabsSymbol(name, descriptor, type) ==
    [name |-> name, descriptor |-> descriptor, type |-> type]
TranslationInput(symbol, stabs_types) ==
    [symbol |-> symbol, stabs_types |-> stabs_types]

\* " :t1=*2=*1": two unnamed pointer types that point at each other.
PointerCycleRoot == Numbered(1, Of("POINTER", Numbered(2, Of("POINTER", ByNumber(1)))))
PointerCycle ==
    TranslationInput(StabsSymbol(" ", "TYPE_NAME", Named(" ", PointerCycleRoot)),
                     (1 :> Named(" ", PointerCycleRoot))
                     @@ (2 :> PointerCycleRoot.child[1]))

\* " :t1=1": an unnamed type that is a reference to itself.
SelfReferenceRoot == Numbered(1, Of("TYPE_REFERENCE", ByNumber(1)))
SelfReference ==
    TranslationInput(StabsSymbol(" ", "TYPE_NAME", Named(" ", SelfReferenceRoot)),
                     1 :> Named(" ", SelfReferenceRoot))

\* " :T1=s4next:*1,0,32;;": an unnamed struct with a pointer to itself.
StructCycleRoot ==
    Numbered(1, StructOf("STRUCT", 4,
                         <<StabsField("next", Of("POINTER", ByNumber(1)), 0, 32)>>))
StructCycle ==
    TranslationInput(
        StabsSymbol(" ", "ENUM_STRUCT_OR_TYPE_TAG", Named(" ", StructCycleRoot)),
        1 :> Named(" ", StructCycleRoot))

\* " :T1=u4f:f2=#1,3,1;,0,32;;": an unnamed union, a function and a method
\* in a cycle, the method with a parameter.
UnionCycleRoot ==
    Numbered(1, StructOf("UNION", 4,
        <<StabsField("f",
              Of("FUNCTION",
                 Numbered(2, [Of("METHOD", ByNumber(3)) EXCEPT
                                 !.parameter_types = <<ByNumber(1)>>])),
              0, 32)>>))
UnionCycle ==
    TranslationInput(
        StabsSymbol(" ", "ENUM_STRUCT_OR_TYPE_TAG", Named(" ", UnionCycleRoot)),
        (1 :> Named(" ", UnionCycleRoot)) @@ (3 :> Named("int", Body("BUILT_IN"))))

\* "Node:T1=s4next:*1,0,32;;": the same struct with a name.
NamedStructCycle ==
    TranslationInput(
        StabsSymbol("Node", "ENUM_STRUCT_OR_TYPE_TAG", Named("Node", StructCycleRoot)),
        1 :> Named("Node", StructCycleRoot))

\* "void:t1=1"
VoidType ==
    TranslationInput(StabsSymbol("void", "TYPE_NAME", Named("void", SelfReferenceRoot)),
                     1 :> Named("void", SelfReferenceRoot))

\* "p:t4=*9", and nothing has the number 9.
DanglingPointer ==
    TranslationInput(
        StabsSymbol("p", "TYPE_NAME", Named("p", Numbered(4, Of("POINTER", ByNumber(9))))),
        4 :> Named("p", Numbered(4, Of("POINTER", ByNumber(9)))))

\* "g:G3": a variable whose type has no body.
GlobalVariable ==
    TranslationInput(StabsSymbol("g", "GLOBAL_VARIABLE", ByNumber(3)),
                     3 :> Named("int", Numbered(3, RangeOf(0, 0))))

\* "Enum:t1=eA:0,B:1,;"
EnumType ==
    TranslationInput(
        StabsSymbol("Enum", "TYPE_NAME",
                    Named("Enum", Numbered(1, [Body("ENUM") EXCEPT
                                                  !.enum_fields = <<<<0, "A">>, <<1, "B">>>>]))),
        <<>>)

\* "int:t3=r3;0;0;": a range at depth 0.
RangeType ==
    TranslationInput(StabsSymbol("int", "TYPE_NAME", Named("int", Numbered(3, RangeOf(0, 0)))),
                     <<>>)

\* A struct with a base class, a field, two bit-fields and a member
\* function, and an array as the type of a field.
IntByNumber == ByNumber(3)
IntTable == 3 :> Named("int", Numbered(3, RangeOf(0, 0)))
DerivedStruct ==
    [StructOf("STRUCT", 12,
              <<StabsField("a", IntByNumber, 32, 32),
                StabsField("b", IntByNumber, 64, 3),
                StabsField("c", IntByNumber, 67, 5),
                StabsField("d", [Of("ARRAY", IntByNumber) EXCEPT
                                    !.index_type = <<RangeOf(0, 3)>>], 96, 128),
                StabsField(" ", StructOf("UNION", 4,
                                         <<StabsField("u", IntByNumber, 0, 32)>>),
                           224, 32)>>)
     EXCEPT !.base_classes = <<[visibility |-> "PUBLIC", offset |-> 0,
                                type |-> Named("Base", ByNumber(7))]>>,
            !.member_functions =
                <<[name |-> "get",
                   overloads |-> <<[MemberFunction EXCEPT
                                       !.type = [Of("METHOD", IntByNumber) EXCEPT
                                                    !.parameter_types = <<IntByNumber>>]]>>]>>]
Derived ==
    TranslationInput(
        StabsSymbol("Derived", "ENUM_STRUCT_OR_TYPE_TAG",
                    Named("Derived", Numbered(8, DerivedStruct))),
        IntTable)

\* "a:G5=ar3;1;4;3": an array whose index range does not start at 0.
BadArray ==
    TranslationInput(
        StabsSymbol("a", "GLOBAL_VARIABLE",
                    Numbered(5, [Of("ARRAY", IntByNumber) EXCEPT
                                    !.index_type = <<RangeOf(1, 4)>>])),
        IntTable)

\* "S:T10=s12a:9,0,32;b:6,32,32;c:3,64,32;;": nothing has the number 9, and
\* the number 6 is known from "x:t6" only, which gives it no body.
MissingTypesRoot ==
    Numbered(10, StructOf("STRUCT", 12,
                          <<StabsField("a", ByNumber(9), 0, 32),
                            StabsField("b", ByNumber(6), 32, 32),
                            StabsField("c", IntByNumber, 64, 32)>>))
MissingTypes ==
    TranslationInput(
        StabsSymbol("S", "ENUM_STRUCT_OR_TYPE_TAG", Named("S", MissingTypesRoot)),
        IntTable @@ (6 :> Named("x", ByNumber(6))) @@ (10 :> Named("S", MissingTypesRoot)))

\* "g:G9", and nothing has the number 9.
DanglingVariable ==
    TranslationInput(StabsSymbol("g", "GLOBAL_VARIABLE", ByNumber(9)), IntTable)

\* " :T1=s8bad:9,0,32;next:*1,32,32;;": an unnamed struct with a field of an
\* unknown type and a pointer to itself.
DeepMissRoot ==
    Numbered(1, StructOf("STRUCT", 8,
                         <<StabsField("bad", ByNumber(9), 0, 32),
                           StabsField("next", Of("POINTER", ByNumber(1)), 32, 32)>>))
DeepMiss ==
    TranslationInput(
        StabsSymbol(" ", "ENUM_STRUCT_OR_TYPE_TAG", Named(" ", DeepMissRoot)),
        1 :> Named(" ", DeepMissRoot))

\* " :T1=s8v:**3,0,32;next:*1,32,32;;": an unnamed struct with a pointer to
\* a pointer to int and a pointer to itself.
DeepNamedRoot ==
    Numbered(1, StructOf("STRUCT", 8,
                         <<StabsField("v", Of("POINTER", Of("POINTER", IntByNumber)), 0, 32),
                           StabsField("next", Of("POINTER", ByNumber(1)), 32, 32)>>))
DeepNamed ==
    TranslationInput(
        StabsSymbol(" ", "ENUM_STRUCT_OR_TYPE_TAG", Named(" ", DeepNamedRoot)),
        IntTable @@ (1 :> Named(" ", DeepNamedRoot)))

\* "S:T11=s4a:3,-8,32;;": the literal of a field offset may have a sign
\* (eat_s32_literal is strtoll).
NegativeOffset ==
    TranslationInput(
        StabsSymbol("S", "ENUM_STRUCT_OR_TYPE_TAG",
                    Named("S", Numbered(11, StructOf("STRUCT", 4,
                                            <<StabsField("a", IntByNumber, -8, 32)>>)))),
        IntTable)

\* "Enum:t1=e;", "TypedefedStruct:t1=s1;", "Struct:T1=s1;" and, after it,
\* "Struct:t1" and "Struct:t2=1": the symbols of the importer tests.
EmptyEnum ==
    TranslationInput(StabsSymbol("Enum", "TYPE_NAME", Named("Enum", Numbered(1, Body("ENUM")))),
                     1 :> Named("Enum", Numbered(1, Body("ENUM"))))
EmptyStruct == Numbered(1, StructOf("STRUCT", 1, <<>>))
TypedefedStruct ==
    TranslationInput(
        StabsSymbol("TypedefedStruct", "TYPE_NAME", Named("TypedefedStruct", EmptyStruct)),
        1 :> Named("TypedefedStruct", EmptyStruct))
StructTag ==
    TranslationInput(
        StabsSymbol("Struct", "ENUM_STRUCT_OR_TYPE_TAG", Named("Struct", EmptyStruct)),
        1 :> Named("Struct", EmptyStruct))
StructTypeName ==
    TranslationInput(StabsSymbol("Struct", "TYPE_NAME", Named("Struct", ByNumber(1))),
                     1 :> Named("Struct", EmptyStruct))
StructTypedef ==
    TranslationInput(
        StabsSymbol("Struct", "TYPE_NAME",
                    Named("Struct", Numbered(2, Of("TYPE_REFERENCE", ByNumber(1))))),
        (1 :> Named("Struct", EmptyStruct))
        @@ (2 :> Named("Struct", Numbered(2, Of("TYPE_REFERENCE", ByNumber(1))))))

\* "F:T12=s4a:3,0,1;b:3,1,7;c:3,8,12;d:3,-3,8;e:3,16,0;f:3,24,8;;": fields
\* that start or end inside a byte, one before the start of the struct.
BitFields ==
    TranslationInput(
        StabsSymbol("F", "ENUM_STRUCT_OR_TYPE_TAG",
                    Named("F", Numbered(12, StructOf("STRUCT", 4,
                        <<StabsField("a", IntByNumber, 0, 1),
                          StabsField("b", IntByNumber, 1, 7),
                          StabsField("c", IntByNumber, 8, 12),
                          StabsField("d", IntByNumber, -3, 8),
                          StabsField("e", IntByNumber, 16, 0),
                          StabsField("f", IntByNumber, 24, 8)>>)))),
        IntTable)

TranslationInputs ==
    {BitFields, PointerCycle, SelfReference, StructCycle, UnionCycle, NamedStructCycle, VoidType,
     DanglingPointer, GlobalVariable, EnumType, RangeType, Derived, BadArray,
     MissingTypes, DanglingVariable, DeepMiss, DeepNamed, NegativeOffset,
     EmptyEnum, TypedefedStruct, StructTag, StructTypeName, StructTypedef}

AstInit ==
    /\ \E input \in TranslationInputs :
         /\ ast_symbol = input.symbol
         /\ ast_stabs_types = input.stabs_types
    /\ ast_stack = <<>>
    /\ ast_ret = NoValue
    /\ ast_pc = "call"
    /\ ast_result = NoValue
    /\ DedupIdle /\ CompareIdle /\ ParseIdle /\ ExtIdle

SpecAst == AstInit /\ [][AstNext]_vars

\* A call that has begun runs until it returns.
SpecAstFair == SpecAst /\ WF_vars(AstNext)

(***************************************************************************)
(* Properties of the translation.                                          *)
(***************************************************************************)
AstDone == ast_pc \in {"returned", "caught", "aborted"}

\* A call of stabs_type_to_ast is about to begin deeper than the limit.
TooDeep ==
    /\ ast_pc = "run" /\ ast_stack # <<>> /\ ast_ret = NoValue
    /\ InnermostCall.fn = "stabs_type_to_ast"
    /\ InnermostCall.depth > DepthLimit

\* No call of stabs_type_to_ast deeper than the limit gets past its first
\* statement, so no call at all is deeper than two past the limit (a call
\* of stabs_field_to_ast at depth 1001 makes one at depth 1002).
C10_Bounded ==
    /\ Len(ast_stack) <= DepthLimit + 3
    /\ \A k \in DOMAIN ast_stack :
          /\ ast_stack[k].depth = k - 1
          /\ (ast_stack[k].fn = "stabs_type_to_ast" /\ ast_stack[k].pc # "enter")
                => ast_stack[k].depth <= DepthLimit

\* The call that is deeper than the limit ends the translation: nothing is
\* left on the stack and stabs_symbol_to_ast returns the error node.
C10_Step ==
    TooDeep => /\ ast_stack' = <<>>
               /\ ast_pc' = "caught"
               /\ ast_result'.descriptor = "TYPE_NAME"
               /\ ast_result'.type_name = "CCC_BADRECURSION"

\* C10: the translation of every symbol ends; no call of stabs_type_to_ast
\* deeper than 1000 goes on to recurse, and such a call makes
\* stabs_symbol_to_ast return a TypeName node with the type_name
\* "CCC_BADRECURSION" instead of going on or stopping the process.
C10_DepthLimit == []C10_Bounded /\ [][C10_Step]_vars /\ <>AstDone

\* Two unnamed types that refer to each other by number were translated,
\* and the result is the error node.
C10_Witness ==
    /\ ast_symbol = PointerCycle.symbol
    /\ ast_pc = "caught"
    /\ ast_stack = <<>>
    /\ ast_result = TypeName("CCC_BADRECURSION")

(***************************************************************************)
(* Lookup misses.                                                          *)
(***************************************************************************)
\* stabs_type_to_ast is about to begin on a type given by number only.
AtTypeReference ==
    /\ ast_pc = "run" /\ ast_stack # <<>> /\ ast_ret = NoValue
    /\ InnermostCall.fn = "stabs_type_to_ast"
    /\ ~InnermostCall.type.has_body

\* The number of a reference names no type with a body.
NamesNoBody(type) ==
    \/ type.anonymous
    \/ type.type_number \notin DOMAIN ast_stabs_types
    \/ ~ast_stabs_types[type.type_number].has_body

HasTypeName(type) == type.has_name /\ type.name \notin {"", " "}

BadTypeLookupNode(type) ==
    TypeName("CCC_BADTYPELOOKUP(" \o ToString(type.type_number) \o ")")

\* The call on a reference that misses returns the marker to its caller,
\* which goes on.
ReturnsMarker ==
    /\ ast_ret' = BadTypeLookupNode(InnermostCall.type)
    /\ ast_pc' = "run"
    /\ ast_stack' = SubSeq(ast_stack, 1, Len(ast_stack) - 1)

C11_Step ==
    (/\ AtTypeReference
     /\ NamesNoBody(InnermostCall.type)
     /\ InnermostCall.depth \in 1..DepthLimit
     /\ ~HasTypeName(InnermostCall.type)) => ReturnsMarker

\* A symbol whose own type is given by number only is not looked up.
C11_Root ==
    (ast_pc = "returned" /\ ~ast_symbol.type.has_body)
        => ast_result = TypeName(ast_symbol.name)

\* Every field of a struct or union that was translated has its node.
C11_Rest ==
    (/\ ast_pc = "returned"
     /\ ast_symbol.type.has_body
     /\ ast_symbol.type.descriptor \in {"STRUCT", "UNION"})
        => /\ Len(ast_result.fields) = Len(ast_symbol.type.fields)
           /\ \A k \in DOMAIN ast_result.fields :
                 ast_result.fields[k].name = name_or_empty(ast_symbol.type.fields[k].name)

\* C11 (as amended): a type given by number only that stabs_type_to_ast
\* reaches inside the type of a symbol, at a depth from 1 to 1000 and with
\* no name of its own, and whose number is anonymous, absent from the type
\* table or mapped to an entry with no body, is translated to the TypeName
\* "CCC_BADTYPELOOKUP(n)" with n its type number; the call returns to its
\* caller, the translation is not aborted, and the rest of the enclosing
\* declaration is translated.  A symbol whose own type is given by number
\* only becomes a TypeName with the name of the symbol, with no lookup.
C11_MissInsideType ==
    /\ [][C11_Step]_vars
    /\ [](C11_Root /\ C11_Rest)
    /\ ((ast_symbol \in {MissingTypes.symbol, DanglingPointer.symbol})
            ~> (ast_pc = "returned"))

\* The struct with two fields of unknown types was translated: both are
\* markers, and the field after them has its type.
C11_Witness ==
    /\ ast_symbol = MissingTypes.symbol
    /\ ast_pc = "returned"
    /\ Len(ast_result.fields) = 3
    /\ ast_result.fields[1].type_name = "CCC_BADTYPELOOKUP(9)"
    /\ ast_result.fields[2].type_name = "CCC_BADTYPELOOKUP(6)"
    /\ ast_result.fields[3].type_name = "int"

\* stabs_symbol_to_ast is called on a symbol whose type is a reference.
AtRootReference == ast_pc = "call" /\ ~ast_symbol.type.has_body

\* C11 (as stated): every type given by number only whose number is
\* anonymous, absent from the type table or mapped to an entry with no body
\* is translated to the TypeName "CCC_BADTYPELOOKUP(n)", and the miss does
\* not abort the translation.
C11_EveryMissIsMarked ==
    /\ (AtRootReference /\ NamesNoBody(ast_symbol.type))
          => ast_result' = BadTypeLookupNode(ast_symbol.type)
    /\ (AtTypeReference /\ NamesNoBody(InnermostCall.type)) => ReturnsMarker

C11_Original == [][C11_EveryMissIsMarked]_vars

(***************************************************************************)
(* Named types below the root.                                             *)
(***************************************************************************)
\* stabs_type_to_ast is about to begin on a type that has a name.
AtNamedType ==
    /\ ast_pc = "run" /\ ast_stack # <<>> /\ ast_ret = NoValue
    /\ InnermostCall.fn = "stabs_type_to_ast"
    /\ HasTypeName(InnermostCall.type)

\* The call returns the name to its caller and makes no call of its own.
ReturnsTypeName ==
    /\ ast_ret' = TypeName(InnermostCall.type.name)
    /\ ast_pc' = "run"
    /\ ast_stack' = SubSeq(ast_stack, 1, Len(ast_stack) - 1)

C20_Step ==
    (AtNamedType /\ InnermostCall.depth \in 1..DepthLimit) => ReturnsTypeName

\* A call of stabs_type_to_ast that went past its first statements on a
\* type with a name is the call of stabs_symbol_to_ast on the root.
C20_ExpandedAtRootOnly ==
    \A k \in DOMAIN ast_stack :
        (/\ ast_stack[k].fn = "stabs_type_to_ast"
         /\ HasTypeName(ast_stack[k].type)
         /\ ast_stack[k].pc # "enter") => (k = 1 /\ ast_stack[k].depth = 0)

\* C20 (as amended): a call of stabs_type_to_ast at a depth from 1 to 1000
\* on a type with a name other than "" and " " returns a TypeName with that
\* name and does not expand the body of the type; the body of a type with
\* a name is expanded only when the type is the root (depth 0).  Deeper
\* than 1000 the call throws CCC_BADRECURSION before it looks at the name.
C20_NameBelowRoot == [][C20_Step]_vars /\ []C20_ExpandedAtRootOnly

\* The struct Node was expanded at the root, and the Node that its field
\* points to is there by name only.
C20_Witness ==
    /\ ast_symbol = NamedStructCycle.symbol
    /\ ast_pc = "returned"
    /\ ast_result.descriptor = "INLINE_STRUCT_OR_UNION"
    /\ Len(ast_result.fields) = 1
    /\ ast_result.fields[1].child = <<TypeName("Node")>>

\* C20 (as stated): a call of stabs_type_to_ast at any depth above 0 on a
\* type with a name other than "" and " " returns a TypeName with that name.
C20_EveryDepth == (AtNamedType /\ InnermostCall.depth > 0) => ReturnsTypeName

C20_Original == [][C20_EveryDepth]_vars

(***************************************************************************)
(* Offsets of fields.                                                      *)
(***************************************************************************)
\* stabs_field_to_ast has the type of its field and is about to return the
\* node of the field.
FieldReturns ==
    /\ ast_pc = "run" /\ ast_stack # <<>> /\ ast_ret # NoValue
    /\ InnermostCall.fn = "stabs_field_to_ast"
    /\ (is_bitfield(InnermostCall.field) \/ ast_ret # NullNode)

\* The offset of the node is the offset of the enclosing aggregate plus
\* the offset of the field in it.
C16_Sum ==
    FieldReturns =>
        ast_ret'.absolute_offset_bytes =
            InnermostCall.absolute_parent_offset_bytes + ast_ret'.relative_offset_bytes

C16_NonNegative ==
    FieldReturns => (ast_ret'.relative_offset_bytes >= 0 /\ ast_ret'.absolute_offset_bytes >= 0)

\* C16: for every field node that stabs_field_to_ast produces, also for a
\* field of an unnamed struct or union nested in another aggregate,
\* absolute_offset_bytes is the absolute offset of the enclosing aggregate
\* plus relative_offset_bytes of the field, and both offsets are
\* non-negative.
C16_FieldOffsets == [][C16_Sum /\ C16_NonNegative]_vars

(***************************************************************************)
(* import_file: parse_symbols, then one pass over the parsed symbols that  *)
(* fills the database.  The pass is written after sections 4.4 and 8 of    *)
(* the specification of the importer: a function starts at a name-colon-   *)
(* type symbol with a function descriptor, LBRAC and RBRAC nest, a         *)
(* parameter or local variable belongs to the function started last, and   *)
(* brackets that do not match end the import with an error.                *)
(***************************************************************************)
\* A record that is not a STABS symbol: its storage type and its string.
NonStabs(storage_type, str) ==
    [is_stabs |-> FALSE, code |-> "NON_STABS", string |-> str,
     storage_type |-> storage_type]

\* "Z14SimpleFunctionv:F(0,23)"
SimpleFunctionString ==
    <<"Z", "1", "4", "S", "i", "m", "p", "l", "e", "F", "u", "n", "c", "t",
      "i", "o", "n", "v", ":", "F", "(", "0", ",", "2", "3", ")">>

\* "$LM1"
LM1String ==
    <<"$", "L", "M", "1">>

\* "$LM2"
LM2String ==
    <<"$", "L", "M", "2">>

\* "_Z14SimpleFunctionv"
SimpleFunctionProcString ==
    <<"_", "Z", "1", "4", "S", "i", "m", "p", "l", "e", "F", "u", "n", "c",
      "t", "i", "o", "n", "v">>

\* "SimpleFunction:F22"
SimpleFunctionIOPString ==
    <<"S", "i", "m", "p", "l", "e", "F", "u", "n", "c", "t", "i", "o", "n",
      ":", "F", "2", "2">>

\* "SimpleFunction"
SimpleFunctionIOPProcString ==
    <<"S", "i", "m", "p", "l", "e", "F", "u", "n", "c", "t", "i", "o", "n">>

\* "_Z19ComplicatedFunctionifPc:F(0,1)"
ComplicatedFunctionString ==
    <<"_", "Z", "1", "9", "C", "o", "m", "p", "l", "i", "c", "a", "t", "e",
      "d", "F", "u", "n", "c", "t", "i", "o", "n", "i", "f", "P", "c", ":",
      "F", "(", "0", ",", "1", ")">>

\* "_Z19ComplicatedFunctionifPc"
ComplicatedFunctionProcString ==
    <<"_", "Z", "1", "9", "C", "o", "m", "p", "l", "i", "c", "a", "t", "e",
      "d", "F", "u", "n", "c", "t", "i", "o", "n", "i", "f", "P", "c">>

\* "a:p(0,1)"
ParameterAString ==
    <<"a", ":", "p", "(", "0", ",", "1", ")">>

\* "b:p(0,14)"
ParameterBString ==
    <<"b", ":", "p", "(", "0", ",", "1", "4", ")">>

\* "c:p(1,1)=*(0,2)"
ParameterCString ==
    <<"c", ":", "p", "(", "1", ",", "1", ")", "=", "*", "(", "0", ",", "2",
      ")">>

\* "x:(0,1)"
LocalXString ==
    <<"x", ":", "(", "0", ",", "1", ")">>

\* "y:(0,1)"
LocalYString ==
    <<"y", ":", "(", "0", ",", "1", ")">>

\* "i:(0,1)"
LocalIString ==
    <<"i", ":", "(", "0", ",", "1", ")">>

\* "z:(0,1)"
LocalZString ==
    <<"z", ":", "(", "0", ",", "1", ")">>

\* "$LM3"
LM3String ==
    <<"$", "L", "M", "3">>

\* "$LM4"
LM4String ==
    <<"$", "L", "M", "4">>

\* "$LM5"
LM5String ==
    <<"$", "L", "M", "5">>

\* "$LM6"
LM6String ==
    <<"$", "L", "M", "6">>

\* "g:f1"
StaticFunctionString ==
    <<"g", ":", "f", "1">>

\* The streams of the tests SimpleFunction, SimpleFunctionIOP and
\* ComplicatedFunction.
SimpleFunction ==
    <<Symbol(TRUE, "N_FUN", SimpleFunctionString),
      NonStabs("LABEL", LM1String),
      NonStabs("PROC", SimpleFunctionProcString),
      NonStabs("LABEL", LM2String),
      NonStabs("END", SimpleFunctionProcString)>>

SimpleFunctionIOP ==
    <<NonStabs("PROC", SimpleFunctionIOPProcString),
      NonStabs("LABEL", LM2String),
      NonStabs("END", SimpleFunctionIOPProcString),
      Symbol(TRUE, "N_FUN", SimpleFunctionIOPString)>>

ComplicatedFunction ==
    <<Symbol(TRUE, "N_FUN", ComplicatedFunctionString),
      Symbol(TRUE, "N_PSYM", ParameterAString),
      Symbol(TRUE, "N_PSYM", ParameterBString),
      Symbol(TRUE, "N_PSYM", ParameterCString),
      NonStabs("LABEL", LM1String),
      NonStabs("PROC", ComplicatedFunctionProcString),
      NonStabs("LABEL", LM2String),
      NonStabs("LABEL", LM3String),
      NonStabs("LABEL", LM4String),
      NonStabs("LABEL", LM5String),
      NonStabs("LABEL", LM6String),
      NonStabs("END", ComplicatedFunctionProcString),
      Symbol(TRUE, "N_LSYM", LocalXString),
      Symbol(TRUE, "N_LBRAC", <<>>),
      Symbol(TRUE, "N_LSYM", LocalYString),
      Symbol(TRUE, "N_LBRAC", <<>>),
      Symbol(TRUE, "N_RBRAC", <<>>),
      Symbol(TRUE, "N_LSYM", LocalIString),
      Symbol(TRUE, "N_LBRAC", <<>>),
      Symbol(TRUE, "N_LSYM", LocalZString),
      Symbol(TRUE, "N_LBRAC", <<>>),
      Symbol(TRUE, "N_RBRAC", <<>>),
      Symbol(TRUE, "N_RBRAC", <<>>),
      Symbol(TRUE, "N_RBRAC", <<>>)>>

\* Short streams of functions, variables and brackets in any order.
MaxImportRecords == 3

ImportPool ==
    {Symbol(TRUE, "N_FUN", SimpleFunctionIOPString),
     Symbol(TRUE, "N_FUN", StaticFunctionString),
     Symbol(TRUE, "N_LSYM", LocalXString),
     Symbol(TRUE, "N_LBRAC", <<>>),
     Symbol(TRUE, "N_RBRAC", <<>>),
     NonStabs("PROC", SimpleFunctionIOPProcString)}

FunctionDescriptors == {"LOCAL_FUNCTION", "GLOBAL_FUNCTION"}
ParameterDescriptors ==
    {"REFERENCE_PARAMETER_A", "REGISTER_PARAMETER", "VALUE_PARAMETER",
     "REFERENCE_PARAMETER_V"}
LocalVariableDescriptors ==
    {"REGISTER_VARIABLE", "LOCAL_VARIABLE", "STATIC_LOCAL_VARIABLE"}

\* A parameter or local variable of the database: its name and function().
Variable(name, function) == [name |-> name, function |-> function]

ImportSymbol == ps_output[imp_index]
ImportDescriptor ==
    IF ImportSymbol.type = "NAME_COLON_TYPE" THEN ImportSymbol.name_colon_type.descriptor
    ELSE "NONE"
Importing == imp_pc = "loop" /\ imp_index <= Len(ps_output)

\* parse_symbols has returned: its error is the error of import_file.
import_file_parsed ==
    /\ imp_pc = "parse" /\ ps_pc = "returned"
    /\ imp_pc' = IF ps_result.success THEN "loop" ELSE "returned"
    /\ imp_result' = IF ps_result.success THEN imp_result
                     ELSE [success |-> FALSE, message |-> ps_result.message]
    /\ UNCHANGED <<imp_index, imp_depth, imp_functions, imp_current_function,
                   imp_parameter_variables, imp_local_variables,
                   ddVars, cmpVars, astVars, psVars,
                   toolVars>>

\* A symbol with a function descriptor starts a function.
import_function ==
    /\ Importing /\ ImportDescriptor \in FunctionDescriptors
    /\ imp_functions' = Append(imp_functions, ImportSymbol.name_colon_type.name)
    /\ imp_current_function' = Len(imp_functions) + 1
    /\ imp_index' = imp_index + 1
    /\ UNCHANGED <<imp_pc, imp_depth, imp_parameter_variables, imp_local_variables,
                   imp_result, ddVars, cmpVars, astVars, psVars,
                   toolVars>>

\* A parameter belongs to the function started last.
import_parameter ==
    /\ Importing /\ ImportDescriptor \in ParameterDescriptors
    /\ imp_parameter_variables' =
           IF imp_current_function = 0 THEN imp_parameter_variables
           ELSE Append(imp_parameter_variables,
                       Variable(ImportSymbol.name_colon_type.name, imp_current_function))
    /\ imp_index' = imp_index + 1
    /\ UNCHANGED <<imp_pc, imp_depth, imp_functions, imp_current_function,
                   imp_local_variables, imp_result, ddVars, cmpVars, astVars, psVars,
                   toolVars>>

\* A local variable belongs to the function started last.
import_local_variable ==
    /\ Importing /\ ImportDescriptor \in LocalVariableDescriptors
    /\ imp_local_variables' =
           IF imp_current_function = 0 THEN imp_local_variables
           ELSE Append(imp_local_variables,
                       Variable(ImportSymbol.name_colon_type.name, imp_current_function))
    /\ imp_index' = imp_index + 1
    /\ UNCHANGED <<imp_pc, imp_depth, imp_functions, imp_current_function,
                   imp_parameter_variables, imp_result, ddVars, cmpVars, astVars, psVars,
                   toolVars>>

\* LBRAC opens a block.
import_lbrac ==
    /\ Importing /\ ImportSymbol.type = "LBRAC"
    /\ imp_depth' = imp_depth + 1
    /\ imp_index' = imp_index + 1
    /\ UNCHANGED <<imp_pc, imp_functions, imp_current_function, imp_parameter_variables,
                   imp_local_variables, imp_result, ddVars, cmpVars, astVars, psVars,
                   toolVars>>

\* RBRAC closes the block opened last; with no block open it is an error
\* that ends the import.
import_rbrac ==
    /\ Importing /\ ImportSymbol.type = "RBRAC"
    /\ IF imp_depth = 0
       THEN /\ imp_pc' = "returned"
            /\ imp_result' = [success |-> FALSE,
                              message |-> "RBRAC symbol without a matching LBRAC symbol."]
            /\ UNCHANGED <<imp_depth, imp_index>>
       ELSE /\ imp_depth' = imp_depth - 1
            /\ imp_index' = imp_index + 1
            /\ UNCHANGED <<imp_pc, imp_result>>
    /\ UNCHANGED <<imp_functions, imp_current_function, imp_parameter_variables,
                   imp_local_variables, ddVars, cmpVars, astVars, psVars,
                   toolVars>>

\* Every other symbol starts no function and no block.
import_other ==
    /\ Importing
    /\ ImportSymbol.type \notin {"LBRAC", "RBRAC"}
    /\ ImportDescriptor \notin
           FunctionDescriptors \cup ParameterDescriptors \cup LocalVariableDescriptors
    /\ imp_index' = imp_index + 1
    /\ UNCHANGED <<imp_pc, imp_depth, imp_functions, imp_current_function,
                   imp_parameter_variables, imp_local_variables, imp_result,
                   ddVars, cmpVars, astVars, psVars,
                   toolVars>>

\* The end of the file: a block that is still open is an error.
import_file_return ==
    /\ imp_pc = "loop" /\ imp_index > Len(ps_output)
    /\ imp_pc' = "returned"
    /\ imp_result' = IF imp_depth = 0 THEN [success |-> TRUE, message |-> ""]
                     ELSE [success |-> FALSE,
                           message |-> "LBRAC symbol without a matching RBRAC symbol."]
    /\ UNCHANGED <<imp_index, imp_depth, imp_functions, imp_current_function,
                   imp_parameter_variables, imp_local_variables,
                   ddVars, cmpVars, astVars, psVars,
                   toolVars>>

ImportStreams ==
    {SimpleFunction, SimpleFunctionIOP, ComplicatedFunction}
        \cup UNION {[1..n -> ImportPool] : n \in 0..MaxImportRecords}

ImportInit ==
    /\ ps_input \in ImportStreams
    /\ parser_flags \in ParserFlags
    /\ ps_index = 1
    /\ ps_prefix = <<>>
    /\ ps_output = <<>>
    /\ ps_warnings = <<>>
    /\ ps_pc = "loop"
    /\ ps_result = NoValue
    /\ imp_pc = "parse" /\ imp_index = 1 /\ imp_depth = 0 /\ imp_functions = <<>>
    /\ imp_current_function = 0 /\ imp_parameter_variables = <<>>
    /\ imp_local_variables = <<>> /\ imp_result = NoValue
    /\ DedupIdle /\ CompareIdle /\ AstIdle /\ ToolIdle

ImportNext ==
    \/ parse_symbols_iteration
    \/ parse_symbols_return
    \/ import_file_parsed
    \/ import_function
    \/ import_parameter
    \/ import_local_variable
    \/ import_lbrac
    \/ import_rbrac
    \/ import_other
    \/ import_file_return

SpecImport == ImportInit /\ [][ImportNext]_vars

(***************************************************************************)
(* Properties of the import.                                               *)
(***************************************************************************)
\* The record of the input that the parsed symbol at hand points at.
ImportRecord == ps_input[ImportSymbol.raw]

\* The brackets of a stream of records, read from the left: the number of
\* open blocks after each record, or -1 once a N_RBRAC had no open block.
RECURSIVE OpenBlocks(_, _)
OpenBlocks(records, n) ==
    IF n = 0 THEN 0
    ELSE LET before == OpenBlocks(records, n - 1)
             record == records[n]
         IN IF before < 0 THEN -1
            ELSE IF record.is_stabs /\ record.code = "N_LBRAC" THEN before + 1
            ELSE IF record.is_stabs /\ record.code = "N_RBRAC" THEN before - 1
            ELSE before

Balanced(records) == OpenBlocks(records, Len(records)) = 0

C12_Step ==
    /\ (Importing /\ ImportRecord.is_stabs /\ ImportRecord.code = "N_LBRAC")
          => (imp_depth' = imp_depth + 1 /\ imp_pc' = "loop")
    /\ (Importing /\ ImportRecord.is_stabs /\ ImportRecord.code = "N_RBRAC")
          => IF imp_depth > 0
             THEN imp_depth' = imp_depth - 1 /\ imp_pc' = "loop"
             ELSE /\ imp_pc' = "returned"
                  /\ ~imp_result'.success
                  /\ imp_result'.message # ""
                  /\ UNCHANGED <<imp_index, imp_depth, imp_functions,
                                 imp_parameter_variables, imp_local_variables>>
    /\ (Importing /\ ~(ImportRecord.is_stabs
                        /\ ImportRecord.code \in {"N_LBRAC", "N_RBRAC"}))
          => imp_depth' = imp_depth

C12_End ==
    /\ imp_depth >= 0
    /\ (imp_pc = "returned" /\ Balanced(ps_input)) => imp_depth = 0
    /\ (imp_pc = "returned" /\ Balanced(ps_input) /\ ps_result.success)
          => imp_result.success

\* C12: while the importer consumes a symbol stream, each LBRAC adds one
\* to the block nesting depth and each RBRAC takes one off, and the depth
\* is never negative: a RBRAC with no open LBRAC is reported as an error
\* and ends the import of the file; for a stream whose N_LBRAC and N_RBRAC
\* records are balanced the depth is zero at the end of the file.
C12_BlockDepth == [][C12_Step]_vars /\ []C12_End

\* The stream of ComplicatedFunction, whose blocks nest two deep, was
\* imported to its end.
C12_Witness ==
    /\ ps_input = ComplicatedFunction
    /\ imp_pc = "returned"
    /\ imp_result.success
    /\ imp_index = Len(ps_output) + 1
    /\ Len(ps_output) = Len(ps_input)
    /\ imp_depth = 0

\* The text of a symbol string before its first ':' and the character
\* after it.
RECURSIVE ColonAt(_, _)
ColonAt(str, i) ==
    IF i > Len(str) THEN 0 ELSE IF str[i] = ":" THEN i ELSE ColonAt(str, i + 1)

TextBeforeColon(str) == string(SubSeq(str, 1, ColonAt(str, 1) - 1))

StartsFunction(record) ==
    /\ record.is_stabs /\ record.code = "N_FUN"
    /\ ColonAt(record.string, 1) \in 1..(Len(record.string) - 1)
    /\ record.string[ColonAt(record.string, 1) + 1] \in {"F", "f"}

\* The names of the functions that the N_FUN records of a stream start.
RECURSIVE FunctionNames(_, _)
FunctionNames(records, n) ==
    IF n = 0 THEN <<>>
    ELSE IF StartsFunction(records[n])
    THEN Append(FunctionNames(records, n - 1), TextBeforeColon(records[n].string))
    ELSE FunctionNames(records, n - 1)

NoUnmatchedBracket(records) == OpenBlocks(records, Len(records)) >= 0

\* C14: each N_FUN record with a function descriptor creates exactly one
\* function in the database, named by the text before the ':'; the LABEL,
\* PROC and END records that are not STABS symbols create no function,
\* whether they come after the N_FUN record or before it.
C14_OneFunctionPerRecord ==
    (imp_pc = "returned" /\ NoUnmatchedBracket(ps_input))
        => imp_functions = FunctionNames(ps_input, Len(ps_input))

\* A parameter or local variable that is created gets the handle of the
\* function started last.
C15_Step ==
    /\ (Importing /\ ImportDescriptor \in ParameterDescriptors /\ imp_functions # <<>>)
          => imp_parameter_variables' =
                 Append(imp_parameter_variables,
                        Variable(TextBeforeColon(ImportRecord.string), Len(imp_functions)))
    /\ (Importing /\ ImportDescriptor \in LocalVariableDescriptors /\ imp_functions # <<>>)
          => imp_local_variables' =
                 Append(imp_local_variables,
                        Variable(TextBeforeColon(ImportRecord.string), Len(imp_functions)))

C15_ComplicatedFunction ==
    (imp_pc = "returned" /\ ps_input = ComplicatedFunction)
        => /\ Len(imp_functions) = 1
           /\ Len(imp_parameter_variables) = 3
           /\ Len(imp_local_variables) = 3

DataTypeTranslated ==
    /\ ast_pc = "returned"
    /\ ast_symbol.descriptor \in {"TYPE_NAME", "ENUM_STRUCT_OR_TYPE_TAG"}
    /\ ast_symbol.type.has_body
    /\ ast_result # NullNode

\* C13: the N_LSYM records that describe one type under one name give one
\* data type of that name; its storage class is TYPEDEF when a 't' symbol
\* defines a struct body or refers to the type under a second type
\* number, and NONE for an enum that a lone 't' symbol defines with its
\* body and for a struct tag.  Here: the node that each such symbol is
\* translated to has the name of the symbol and that storage class.
C13_StorageClass ==
    DataTypeTranslated =>
        /\ ast_result.name = name_or_empty(ast_symbol.name)
        /\ ast_result.storage_class =
               IF /\ ast_symbol.descriptor = "TYPE_NAME"
                  /\ ast_symbol.type.descriptor \in {"STRUCT", "UNION", "TYPE_REFERENCE"}
               THEN "TYPEDEF"
               ELSE IF \/ ast_symbol.descriptor = "ENUM_STRUCT_OR_TYPE_TAG"
                       \/ ast_symbol.type.descriptor = "ENUM"
               THEN "NONE"
               ELSE ast_result.storage_class

(***************************************************************************)
(* The C++ printer: the comment blocks that print_types_deduplicated puts  *)
(* at the head of a types listing.  out is the text written so far.        *)
(***************************************************************************)

\* The characters of the modelled strings, in the order of their codes:
\* std::string compares byte by byte.
CharacterOrder == " -./0123456789@ABCDEFGHIJKLMNOPQRSTUVWXYZ_abcdefghijklmnopqrstuvwxyz"

char_rank(c) == CHOOSE i \in 1..Len(CharacterOrder) : SubSeq(CharacterOrder, i, i) = c

RECURSIVE string_less(_, _)
string_less(a, b) ==
    IF b = "" THEN FALSE
    ELSE IF a = "" THEN TRUE
    ELSE IF SubSeq(a, 1, 1) # SubSeq(b, 1, 1)
         THEN char_rank(SubSeq(a, 1, 1)) < char_rank(SubSeq(b, 1, 1))
         ELSE string_less(SubSeq(a, 2, Len(a)), SubSeq(b, 2, Len(b)))

\* fs::path::filename: the text after the last directory separator.
RECURSIVE filename(_)
filename(path) ==
    IF \E i \in 1..Len(path) : SubSeq(path, i, i) = "/"
    THEN filename(SubSeq(path, 2, Len(path)))
    ELSE path

\* printf("%0<width>d") of a non-negative number.
RECURSIVE zero_padded(_, _)
zero_padded(text, width) ==
    IF Len(text) >= width THEN text ELSE zero_padded("0" \o text, width)

\* printf("%-<width>s"): the text, filled with spaces on the right.
RECURSIVE left_justified(_, _)
left_justified(text, width) ==
    IF Len(text) >= width THEN text ELSE left_justified(text \o " ", width)

BuiltinColumnWidth == 25

\* What std::localtime returns: a broken-down time, or a null pointer.
NullTime == [null |-> TRUE]

tm(year, mon, mday) == [tm_year |-> year - 1900, tm_mon |-> mon - 1, tm_mday |-> mday]

\* The clock belongs to the environment: the days on which a run may happen.
LocalTimes == {tm(2023, 9, 5), tm(2023, 12, 31), tm(2024, 1, 1), NullTime}

date_text(t) ==
    IF t = NullTime THEN ""
    ELSE " on " \o zero_padded(ToString(1900 + t.tm_year), 4) \o "-"
                \o zero_padded(ToString(t.tm_mon + 1), 2) \o "-"
                \o zero_padded(ToString(t.tm_mday), 2)

comment_block_beginning_text(printed, t, input_file) ==
    (IF printed THEN "\n" ELSE "")
        \o "// File written by stdump" \o date_text(t)
        \o "\n// \n"
        \o "// Input file:\n"
        \o "//   " \o filename(input_file) \o "\n"

\* The strings that one file descriptor adds to compiler_version_info.
fd_version_info(fd) ==
    IF \E i \in 1..Len(fd) : fd[i].storage_class = "INFO" /\ fd[i].string # "@stabs"
    THEN {fd[i].string : i \in {j \in 1..Len(fd) : fd[j].storage_class = "INFO"
                                                    /\ fd[j].string # "@stabs"}}
    ELSE {"unknown"}

compiler_version_info(files) == UNION {fd_version_info(files[i]) : i \in 1..Len(files)}

\* Iterating a std::set<std::string>: the least string first.
least_string(strings) == CHOOSE s \in strings : \A o \in strings : ~string_less(o, s)

RECURSIVE version_info_lines(_)
version_info_lines(strings) ==
    IF strings = {} THEN ""
    ELSE "//   " \o least_string(strings) \o "\n"
             \o version_info_lines(strings \ {least_string(strings)})

comment_block_compiler_version_info_text(symbol_table) ==
    "// Toolchain version(s):\n" \o version_info_lines(compiler_version_info(symbol_table))

\* BuiltInClass, by its enumerator value, and the text printed for it.
BuiltInClassStrings == <<"void", "8-bit unsigned integer", "32-bit signed integer">>

builtin_class_to_string(bclass) == BuiltInClassStrings[bclass + 1]

builtins_of(ast_nodes) ==
    {<<ast_nodes[i].name, ast_nodes[i].bclass>> :
        i \in {j \in 1..Len(ast_nodes) : ast_nodes[j].descriptor = "BUILTIN"}}

\* std::pair compares the name first and the class second.
builtin_less(a, b) == string_less(a[1], b[1]) \/ (a[1] = b[1] /\ a[2] < b[2])

least_builtin(builtins) == CHOOSE s \in builtins : \A o \in builtins : ~builtin_less(o, s)

RECURSIVE builtin_lines(_)
builtin_lines(builtins) ==
    IF builtins = {} THEN ""
    ELSE "//   " \o left_justified(least_builtin(builtins)[1], BuiltinColumnWidth)
             \o builtin_class_to_string(least_builtin(builtins)[2]) \o "\n"
             \o builtin_lines(builtins \ {least_builtin(builtins)})

comment_block_builtin_types_text(ast_nodes) ==
    IF builtins_of(ast_nodes) = {} THEN ""
    ELSE "// Built-in types:\n" \o builtin_lines(builtins_of(ast_nodes))

\* ---- the inputs of a listing ----
InfoSymbol(text) == [storage_class |-> "INFO", string |-> text]

TextSymbol(text) == [storage_class |-> "TEXT", string |-> text]

BuiltInNode(name, bclass) == [descriptor |-> "BUILTIN", name |-> name, bclass |-> bclass]

StructNode(name) == [descriptor |-> "STRUCT", name |-> name]

PrintSymbolTables ==
    { <<>>,
      << <<InfoSymbol("@stabs"), TextSymbol("main")>> >>,
      << <<InfoSymbol("@stabs"), InfoSymbol("GNU C 2.95.2")>>,
         <<InfoSymbol("GNU C 2.9-ee-991111")>>, <<TextSymbol("crt0.s")>> >> }

PrintAstNodes ==
    { <<>>,
      <<StructNode("Vec3")>>,
      <<BuiltInNode("void", 0), StructNode("Vec3"), BuiltInNode("int", 2),
        BuiltInNode("char", 1), BuiltInNode("int", 2), BuiltInNode("char", 2)>> }

PrintInputFiles == {"game.elf", "disc/SLUS_200.62"}

PrintInputs ==
    [input_file : PrintInputFiles, symbol_table : PrintSymbolTables, ast_nodes : PrintAstNodes]

\* ---- the calls of print_types_deduplicated, one action each ----
comment_block_beginning ==
    /\ pr_pc = "comment_block_beginning"
    /\ \E t \in LocalTimes :
           pr_out' = pr_out \o comment_block_beginning_text(has_anything_been_printed, t,
                                                            pr_input.input_file)
    /\ last_wants_spacing' = TRUE
    /\ has_anything_been_printed' = TRUE
    /\ pr_pc' = "comment_block_compiler_version_info"
    /\ UNCHANGED <<pr_run, pr_input, pr_first_out, ddVars, cmpVars, astVars, psVars,
                   impVars, unVars, sdVars,
                   lateVars>>

comment_block_compiler_version_info ==
    /\ pr_pc = "comment_block_compiler_version_info"
    /\ pr_out' = pr_out \o comment_block_compiler_version_info_text(pr_input.symbol_table)
    /\ last_wants_spacing' = TRUE
    /\ has_anything_been_printed' = TRUE
    /\ pr_pc' = "comment_block_builtin_types"
    /\ UNCHANGED <<pr_run, pr_input, pr_first_out, ddVars, cmpVars, astVars, psVars,
                   impVars, unVars, sdVars,
                   lateVars>>

comment_block_builtin_types ==
    /\ pr_pc = "comment_block_builtin_types"
    /\ pr_out' = pr_out \o comment_block_builtin_types_text(pr_input.ast_nodes)
    /\ last_wants_spacing' = TRUE
    /\ has_anything_been_printed' = TRUE
    /\ pr_pc' = "returned"
    /\ UNCHANGED <<pr_run, pr_input, pr_first_out, ddVars, cmpVars, astVars, psVars,
                   impVars, unVars, sdVars,
                   lateVars>>

\* The tool is run a second time on the same input, with a new printer.
print_types_deduplicated_again ==
    /\ pr_pc = "returned" /\ pr_run = 1
    /\ pr_first_out' = pr_out
    /\ pr_out' = ""
    /\ has_anything_been_printed' = FALSE
    /\ last_wants_spacing' = FALSE
    /\ pr_run' = 2
    /\ pr_pc' = "comment_block_beginning"
    /\ UNCHANGED <<pr_input, ddVars, cmpVars, astVars, psVars, impVars, unVars, sdVars,
                   lateVars>>

PrintInit ==
    /\ pr_input \in PrintInputs
    /\ pr_pc = "comment_block_beginning"
    /\ pr_run = 1
    /\ pr_out = ""
    /\ pr_first_out = ""
    /\ has_anything_been_printed = FALSE
    /\ last_wants_spacing = FALSE
    /\ DedupIdle /\ CompareIdle /\ AstIdle /\ ParseIdle /\ ImportIdle
    /\ UnccIdle /\ StdumpIdle /\ LateIdle

PrintNext ==
    \/ comment_block_beginning
    \/ comment_block_compiler_version_info
    \/ comment_block_builtin_types
    \/ print_types_deduplicated_again

SpecPrint == PrintInit /\ [][PrintNext]_vars

\* C17: two runs of the printer on the same input produce byte-for-byte
\* identical text, whatever the time at which each run happens.
C17_Deterministic ==
    (pr_run = 2 /\ pr_pc = "returned") => pr_out = pr_first_out

\* Everything after the first line of the listing is the same in both runs,
\* and so is the whole text when both runs happen on the same day.
RECURSIVE after_first_line(_)
after_first_line(text) ==
    IF text = "" THEN ""
    ELSE IF SubSeq(text, 1, 1) = "\n" THEN SubSeq(text, 2, Len(text))
    ELSE after_first_line(SubSeq(text, 2, Len(text)))

C17_SameButForTheDate ==
    (pr_run = 2 /\ pr_pc = "returned") =>
        after_first_line(pr_out) = after_first_line(pr_first_out)

\* Both runs done, on a listing with several toolchains and built-in types.
C17_BothRunsDone ==
    /\ pr_run = 2 /\ pr_pc = "returned"
    /\ Cardinality(compiler_version_info(pr_input.symbol_table)) > 1
    /\ Cardinality(builtins_of(pr_input.ast_nodes)) > 1

(***************************************************************************)
(* uncc: the loop of main that writes the .c/.cpp files and their headers. *)
(* Paths are relative to the output directory.  The source files hold no   *)
(* globals and no functions, so a written file is its fixed frame.         *)
(***************************************************************************)

NoFile == [exists |-> FALSE, text |-> ""]

File(text) == [exists |-> TRUE, text |-> text]

\* std::optional<std::string>: the text of the file, or nothing when the file
\* cannot be opened.
read_text_file(files, path) ==
    IF files[path].exists THEN [has_value |-> TRUE, value |-> files[path].text]
    ELSE [has_value |-> FALSE]

starts_with(text, prefix) ==
    Len(text) >= Len(prefix) /\ SubSeq(text, 1, Len(prefix)) = prefix

should_overwrite_file_any_status(files, path) ==
    \E file \in {read_text_file(files, path)} :
        ~file.has_value \/ file.value = "" \/ starts_with(file.value, "// STATUS: ")

should_overwrite_file(files, path) ==
    \E file \in {read_text_file(files, path)} :
        ~file.has_value \/ file.value = ""
            \/ starts_with(file.value, "// STATUS: NOT STARTED")

\* fs::path::extension and replace_extension, on a file name with a dot.
RECURSIVE extension(_)
extension(path) ==
    IF \E i \in 2..Len(path) : SubSeq(path, i, i) \in {".", "/"}
    THEN extension(SubSeq(path, 2, Len(path)))
    ELSE IF path # "" /\ SubSeq(path, 1, 1) = "." THEN path ELSE ""

replace_extension(path, replacement) ==
    SubSeq(path, 1, Len(path) - Len(extension(path))) \o replacement

LowerCase == "abcdefghijklmnopqrstuvwxyz"

UpperCase == "ABCDEFGHIJKLMNOPQRSTUVWXYZ"

Contains(text, c) == \E i \in 1..Len(text) : SubSeq(text, i, i) = c

letter_index(c) == CHOOSE i \in 1..Len(LowerCase) : SubSeq(LowerCase, i, i) = c

toupper(c) ==
    IF Contains(LowerCase, c) THEN SubSeq(UpperCase, letter_index(c), letter_index(c))
    ELSE c

\* The include guard: upper case, and '_' for what is not a letter or digit.
RECURSIVE include_guard(_)
include_guard(relative_path) ==
    IF relative_path = "" THEN ""
    ELSE (IF isalnum(toupper(SubSeq(relative_path, 1, 1)))
          THEN toupper(SubSeq(relative_path, 1, 1)) ELSE "_")
             \o include_guard(SubSeq(relative_path, 2, Len(relative_path)))

write_c_cpp_file_text == "// STATUS: NOT STARTED\n\n"

write_h_file_text(relative_path) ==
    "// STATUS: NOT STARTED\n\n"
        \o "#ifndef " \o include_guard(relative_path) \o "\n"
        \o "#define " \o include_guard(relative_path) \o "\n\n"
        \o "\n#endif // " \o include_guard(relative_path) \o "\n"

\* Iterating path_to_source_file, a std::map: the least key first.
RECURSIVE sorted_keys(_)
sorted_keys(keys) ==
    IF keys = {} THEN <<>>
    ELSE <<least_string(keys)>> \o sorted_keys(keys \ {least_string(keys)})

\* ---- the inputs ----
SourcePathSets == { {"lib/b.cpp", "a.c"}, {"a.cpp", "a.c"}, {"lib/b.cpp", "crt0.s"} }

OutputPaths == {"a.c", "a.cpp", "a.h", "crt0.s", "crt0.h", "lib/b.cpp", "lib/b.h", "notes.h"}

FileStates ==
    { NoFile,
      File(""),
      File("// STATUS: NOT STARTED\n\nint x;\n"),
      File("// STATUS: IN PROGRESS\n\nint x;\n"),
      File("// STATUS: NOT"),
      File("\n// STATUS: NOT STARTED\n") }

\* The files that a run over these sources looks at.
ConsideredPaths(keys) == keys \cup {replace_extension(k, ".h") : k \in keys}

\* The directory at the start: any state for the files that the run looks
\* at, and one file of the user's that it has no reason to touch.
Directories(keys) ==
    { [path \in OutputPaths |->
          IF path \in ConsideredPaths(keys) THEN considered[path]
          ELSE IF path = "notes.h" THEN File("// my notes\n") ELSE NoFile] :
      considered \in [ConsideredPaths(keys) -> FileStates] }

Decision(path, before, written) == [path |-> path, before |-> before, written |-> written]

UnccPath == un_sources[un_index]

\* ---- one iteration of the loop, in its two halves ----
uncc_c_cpp_file ==
    /\ un_pc = "c_cpp_file"
    /\ un_index <= Len(un_sources)
    /\ extension(UnccPath) \in {".c", ".cpp"}
    /\ \E overwrite \in {should_overwrite_file(un_files, UnccPath)} :
           /\ un_files' = IF overwrite
                          THEN [un_files EXCEPT ![UnccPath] = File(write_c_cpp_file_text)]
                          ELSE un_files
           /\ un_decisions' =
                  Append(un_decisions, Decision(UnccPath, un_files[UnccPath], overwrite))
    /\ un_pc' = "h_file"
    /\ UNCHANGED <<un_sources, un_index, ddVars, cmpVars, astVars, psVars, impVars,
                   prVars, sdVars, lateVars>>

uncc_h_file ==
    /\ un_pc = "h_file"
    /\ \E header_path \in {replace_extension(UnccPath, ".h")} :
       \E overwrite \in {should_overwrite_file(un_files, header_path)} :
           /\ un_files' = IF overwrite
                          THEN [un_files EXCEPT
                                   ![header_path] = File(write_h_file_text(header_path))]
                          ELSE un_files
           /\ un_decisions' =
                  Append(un_decisions, Decision(header_path, un_files[header_path], overwrite))
    /\ un_index' = un_index + 1
    /\ un_pc' = "c_cpp_file"
    /\ UNCHANGED <<un_sources, ddVars, cmpVars, astVars, psVars, impVars, prVars, sdVars,
                   lateVars>>

uncc_assembly_file ==
    /\ un_pc = "c_cpp_file"
    /\ un_index <= Len(un_sources)
    /\ extension(UnccPath) \notin {".c", ".cpp"}
    /\ un_index' = un_index + 1
    /\ UNCHANGED <<un_pc, un_files, un_sources, un_decisions, ddVars, cmpVars, astVars,
                   psVars, impVars, prVars, sdVars,
                   lateVars>>

uncc_return ==
    /\ un_pc = "c_cpp_file"
    /\ un_index > Len(un_sources)
    /\ un_pc' = "returned"
    /\ UNCHANGED <<un_files, un_sources, un_index, un_decisions, ddVars, cmpVars, astVars,
                   psVars, impVars, prVars, sdVars,
                   lateVars>>

UnccInit ==
    /\ \E keys \in SourcePathSets :
           /\ un_sources = sorted_keys(keys)
           /\ un_files \in Directories(keys)
    /\ un_pc = "c_cpp_file"
    /\ un_index = 1
    /\ un_decisions = <<>>
    /\ DedupIdle /\ CompareIdle /\ AstIdle /\ ParseIdle /\ ImportIdle
    /\ PrintIdle /\ StdumpIdle /\ LateIdle

UnccNext ==
    \/ uncc_c_cpp_file
    \/ uncc_h_file
    \/ uncc_assembly_file
    \/ uncc_return

SpecUncc == UnccInit /\ [][UnccNext]_vars

\* ---- the property ----
StatusNotStarted == "// STATUS: NOT STARTED"

BeginsWithStatusNotStarted(text) ==
    /\ Len(text) >= Len(StatusNotStarted)
    /\ \A i \in 1..Len(StatusNotStarted) :
           SubSeq(text, i, i) = SubSeq(StatusNotStarted, i, i)

MayBeWritten(file) ==
    ~file.exists \/ file.text = "" \/ BeginsWithStatusNotStarted(file.text)

IsOutputFile(path) == extension(path) \in {".c", ".cpp", ".h"}

\* A step changes no file but the one it decides on, and that one only
\* when it may be written.
C18_Frame ==
    \A path \in OutputPaths :
        un_files'[path] # un_files[path] =>
            /\ MayBeWritten(un_files[path])
            /\ IsOutputFile(path)
            /\ un_decisions' # un_decisions
            /\ un_decisions'[Len(un_decisions')].path = path

\* Every decision is taken on the file's own content: written exactly when
\* the file was absent, empty or a placeholder, whatever happened to the
\* other file of the pair.
C18_Separate ==
    \A i \in 1..Len(un_decisions) :
        /\ un_decisions[i].written = MayBeWritten(un_decisions[i].before)
        /\ IsOutputFile(un_decisions[i].path)

\* C18: uncc writes a .c/.cpp or .h file only if it does not exist, is empty
\* or begins with "// STATUS: NOT STARTED"; every other existing file is
\* left unchanged, and the source and its header are decided separately.
C18_PreservesFiles == [][C18_Frame]_vars /\ []C18_Separate

\* A run that kept a source file somebody had started on and wrote its
\* header, and kept a header while writing its source.
C18_Witness ==
    /\ un_pc = "returned"
    /\ \E i, j \in 1..Len(un_decisions) :
           /\ extension(un_decisions[i].path) # ".h" /\ ~un_decisions[i].written
           /\ un_decisions[i].before.exists
           /\ un_decisions[j].path = replace_extension(un_decisions[i].path, ".h")
           /\ un_decisions[j].written
           /\ un_files[un_decisions[i].path] = un_decisions[i].before
    /\ \E i, j \in 1..Len(un_decisions) :
           /\ extension(un_decisions[i].path) # ".h" /\ un_decisions[i].written
           /\ un_decisions[j].path = replace_extension(un_decisions[i].path, ".h")
           /\ ~un_decisions[j].written

(***************************************************************************)
(* stdump: parse_command_line_arguments and main.  sd_argv is argv without *)
(* the program name, so argv[i] of the code is sd_argv[i] here.            *)
(***************************************************************************)

CommandNames ==
    {"identify", "functions", "globals", "types", "type_graph", "labels", "json",
     "symbols", "headers", "files", "sections"}

\* The names that symbol_table_format_from_name knows.
SymbolTableFormatNames == {"mdebug", "symtab", "sndll"}

FlagOptions ==
    {"--per-file", "--omit-access-specifiers", "--omit-member-functions",
     "--include-generated-functions", "--locals", "--externals", "--mangled"}

DefaultOptions ==
    [function |-> "nullptr", input_file |-> "", output_file |-> "", flags |-> {},
     section |-> <<>>, format |-> <<>>]

\* The loop over commands: the function of the command with that name.
find_command_unchecked(name) == name

find_command(name) == IF name \in CommandNames THEN name ELSE "nullptr"

\* CCC_FATAL and a failed CCC_CHECK_FATAL: the message is printed and the
\* process exits with status 1.
Fatal == [fatal |-> TRUE]

Parsed(options, provided, next) ==
    [fatal |-> FALSE, options |-> options, provided |-> provided, next |-> next]

\* One iteration of the loop over argv[2 ..].
parse_argument(options, provided, argv, i) ==
    IF argv[i] \in FlagOptions
        THEN Parsed([options EXCEPT !.flags = @ \cup {argv[i]}], provided, i + 1)
    ELSE IF argv[i] = "--output"
        THEN IF i + 1 <= Len(argv)
             THEN Parsed([options EXCEPT !.output_file = argv[i + 1]], provided, i + 2)
             ELSE Fatal
    ELSE IF argv[i] = "--section"
        THEN IF i + 1 <= Len(argv)
             THEN Parsed([options EXCEPT !.section = <<argv[i + 1]>>], provided, i + 2)
             ELSE Fatal
    ELSE IF argv[i] = "--format"
        THEN IF i + 1 <= Len(argv)
             THEN IF argv[i + 1] \in SymbolTableFormatNames
                  THEN Parsed([options EXCEPT !.format = <<argv[i + 1]>>], provided, i + 2)
                  ELSE Fatal
             ELSE Fatal
    ELSE IF starts_with(argv[i], "--") THEN Fatal
    ELSE IF provided THEN Fatal
    ELSE Parsed([options EXCEPT !.input_file = argv[i]], TRUE, i + 1)

sd_fatal ==
    /\ sd_pc' = "exited"
    /\ sd_exit' = 1

sd_others == <<ddVars, cmpVars, astVars, psVars, impVars, prVars, unVars, lateVars>>

\* parse_command_line_arguments up to its loop over the arguments.
parse_command_name ==
    /\ sd_pc = "parse_command_line_arguments"
    /\ IF Len(sd_argv) < 1
       THEN /\ sd_pc' = "main"
            /\ UNCHANGED <<sd_options, require_input_path>>
       ELSE /\ sd_options' = [sd_options EXCEPT !.function = find_command(sd_argv[1])]
            /\ require_input_path' = (find_command(sd_argv[1]) # "nullptr")
            /\ sd_pc' = "arguments"
    /\ UNCHANGED <<sd_argv, sd_i, input_path_provided, sd_can_open, sd_help_printed,
                   sd_command, sd_exit, sd_others>>

parse_argument_iteration ==
    /\ sd_pc = "arguments"
    /\ sd_i <= Len(sd_argv)
    /\ \E r \in {parse_argument(sd_options, input_path_provided, sd_argv, sd_i)} :
           IF r.fatal
           THEN /\ sd_fatal
                /\ UNCHANGED <<sd_options, input_path_provided, sd_i>>
           ELSE /\ sd_options' = r.options
                /\ input_path_provided' = r.provided
                /\ sd_i' = r.next
                /\ UNCHANGED <<sd_pc, sd_exit>>
    /\ UNCHANGED <<sd_argv, require_input_path, sd_can_open, sd_help_printed, sd_command,
                   sd_others>>

parse_command_line_arguments_return ==
    /\ sd_pc = "arguments"
    /\ sd_i > Len(sd_argv)
    /\ IF ~require_input_path \/ sd_options.input_file # ""
       THEN /\ sd_pc' = "main"
            /\ UNCHANGED sd_exit
       ELSE sd_fatal
    /\ UNCHANGED <<sd_argv, sd_i, sd_options, require_input_path, input_path_provided,
                   sd_can_open, sd_help_printed, sd_command, sd_others>>

\* main after the arguments are parsed: open the output, then the command
\* or the help text.
stdump_main ==
    /\ sd_pc = "main"
    /\ IF sd_options.output_file # "" /\ ~sd_can_open
       THEN /\ sd_fatal
            /\ UNCHANGED sd_help_printed
       ELSE IF sd_options.function # "nullptr"
       THEN /\ sd_pc' = "command"
            /\ UNCHANGED <<sd_help_printed, sd_exit>>
       ELSE /\ sd_help_printed' = TRUE
            /\ sd_pc' = "exited"
            /\ sd_exit' = 1
    /\ UNCHANGED <<sd_argv, sd_i, sd_options, require_input_path, input_path_provided,
                   sd_can_open, sd_command, sd_others>>

\* options.function(out, options): the command returns, and main returns 0
\* after it, or it meets a fatal error on the way.
stdump_command ==
    /\ sd_pc = "command"
    /\ \E outcome \in {"completed", "failed"} :
           /\ sd_command' = outcome
           /\ sd_exit' = IF outcome = "completed" THEN 0 ELSE 1
    /\ sd_pc' = "exited"
    /\ UNCHANGED <<sd_argv, sd_i, sd_options, require_input_path, input_path_provided,
                   sd_can_open, sd_help_printed, sd_others>>

MaxArguments == 3

ArgumentPool ==
    {"types", "bogus", "--mangled", "--output", "--section", "--format", "mdebug",
     "--bad", "game.elf", ""}

ArgumentLists == UNION {[1..n -> ArgumentPool] : n \in 0..MaxArguments}

StdumpInit ==
    /\ sd_argv \in ArgumentLists
    /\ sd_can_open \in BOOLEAN
    /\ sd_pc = "parse_command_line_arguments"
    /\ sd_i = 2
    /\ sd_options = DefaultOptions
    /\ require_input_path = FALSE
    /\ input_path_provided = FALSE
    /\ sd_help_printed = FALSE
    /\ sd_command = "none"
    /\ sd_exit = -1
    /\ DedupIdle /\ CompareIdle /\ AstIdle /\ ParseIdle /\ ImportIdle
    /\ PrintIdle /\ UnccIdle /\ LateIdle

StdumpNext ==
    \/ parse_command_name
    \/ parse_argument_iteration
    \/ parse_command_line_arguments_return
    \/ stdump_main
    \/ stdump_command

SpecStdump == StdumpInit /\ [][StdumpNext]_vars

\* ---- the command line, read independently of the parser's state ----
ValueOptions == {"--output", "--section", "--format"}

IsOption(arg) == Len(arg) >= 2 /\ SubSeq(arg, 1, 2) = "--"

\* The positions of argv[2 ..] that are read as arguments of their own, not
\* as the value of the option before them.
RECURSIVE ArgumentPositions(_, _)
ArgumentPositions(argv, i) ==
    IF i > Len(argv) THEN {}
    ELSE {i} \cup ArgumentPositions(argv, IF argv[i] \in ValueOptions THEN i + 2 ELSE i + 1)

InputPathPositions(argv) == {i \in ArgumentPositions(argv, 2) : ~IsOption(argv[i])}

RecognisedSubcommand(argv) == Len(argv) >= 1 /\ argv[1] \in CommandNames

OptionError(argv) ==
    \E i \in ArgumentPositions(argv, 2) :
        \/ IsOption(argv[i]) /\ argv[i] \notin FlagOptions \cup ValueOptions
        \/ argv[i] \in ValueOptions /\ i = Len(argv)
        \/ argv[i] = "--format" /\ i < Len(argv) /\ argv[i + 1] \notin SymbolTableFormatNames

UsageError(argv) ==
    \/ OptionError(argv)
    \/ Cardinality(InputPathPositions(argv)) > 1
    \/ RecognisedSubcommand(argv) /\ \A i \in InputPathPositions(argv) : argv[i] = ""

NamesOutputFile(argv) ==
    \E i \in ArgumentPositions(argv, 2) :
        argv[i] = "--output" /\ i < Len(argv) /\ argv[i + 1] # ""

Exited == sd_pc = "exited"

\* Status 0 only for a recognised subcommand with exactly one input path
\* that ran to completion.
C19_Success ==
    (Exited /\ sd_exit = 0) =>
        /\ RecognisedSubcommand(sd_argv)
        /\ Cardinality(InputPathPositions(sd_argv)) = 1
        /\ sd_command = "completed"

\* A usage error is fatal with a nonzero status before any command runs.
C19_UsageError ==
    UsageError(sd_argv) =>
        /\ sd_command = "none"
        /\ sd_pc # "command"
        /\ Exited => sd_exit > 0

HelpAndStatusOne == sd_help_printed /\ sd_command = "none" /\ sd_exit = 1

\* C19, as amended: status 0 only for a recognised subcommand with exactly
\* one input path that ran to completion; with no subcommand or an
\* unrecognised one, no usage error in the remaining arguments and an
\* output file that can be opened, the help text is printed, no command
\* runs and the status is 1; a usage error is fatal with a nonzero status
\* before any command runs.
C19_ExitStatus ==
    /\ C19_Success
    /\ C19_UsageError
    /\ (Exited /\ ~RecognisedSubcommand(sd_argv) /\ ~UsageError(sd_argv)
           /\ (NamesOutputFile(sd_argv) => sd_can_open)) => HelpAndStatusOne

\* The help text went to a named output file after an unrecognised
\* subcommand.
C19_Witness ==
    /\ Exited /\ HelpAndStatusOne
    /\ Len(sd_argv) >= 1 /\ ~RecognisedSubcommand(sd_argv)
    /\ NamesOutputFile(sd_argv)

\* C19 as stated: with no subcommand or an unrecognised one the help text is
\* printed, whatever the remaining arguments are.
C19_Original ==
    /\ C19_Success
    /\ C19_UsageError
    /\ (Exited /\ ~RecognisedSubcommand(sd_argv)) => HelpAndStatusOne

(***************************************************************************)
(* symbols_to_ast: the loop that translates the data types of a file, on   *)
(* top of the translation of one symbol above.                             *)
(***************************************************************************)

\* A symbol of the file: the parsed STABS symbol and what is_data_type reads
\* of the .mdebug symbol it came from.
FileSymbol(stabs, storage_type, storage_class) ==
    [stabs |-> stabs, storage_type |-> storage_type, storage_class |-> storage_class]

DataTypeSymbol(stabs) == FileSymbol(stabs, "NIL", 0)

is_data_type(symbol) ==
    /\ symbol.storage_type = "NIL"
    /\ symbol.storage_class = 0
    /\ symbol.stabs.descriptor \in {"ENUM_STRUCT_OR_TYPE_TAG", "TYPE_NAME"}

\* "IntPtr:t4=*3": a pointer to int, which is known by its number.
IntPtrSymbol ==
    StabsSymbol("IntPtr", "TYPE_NAME", Named("IntPtr", Numbered(4, Of("POINTER", IntByNumber))))

\* "Raw:t5=*6=r6;0;127;": a pointer to a range type that has no name.
RawSymbol ==
    StabsSymbol("Raw", "TYPE_NAME",
                Named("Raw", Numbered(5, Of("POINTER", Numbered(6, RangeOf(0, 127))))))

\* "Deep:t7=**8=r8;0;127;": the same one pointer further down.
DeepSymbol ==
    StabsSymbol("Deep", "TYPE_NAME",
                Named("Deep", Numbered(7, Of("POINTER",
                                             Of("POINTER", Numbered(8, RangeOf(0, 127)))))))

\* "Get:T9=s4get::10=r10;0;127;:_ZN3Get3getEv;2A.;;": a struct whose member
\* function has a range as its type.
GetSymbol ==
    StabsSymbol("Get", "ENUM_STRUCT_OR_TYPE_TAG",
        Named("Get", Numbered(9,
            [StructOf("STRUCT", 4, <<>>) EXCEPT
                !.member_functions =
                    <<[name |-> "get",
                       overloads |-> <<[MemberFunction EXCEPT
                                           !.type = Numbered(10, RangeOf(0, 127))]>>]>>])))

\* "Box:T11=s4v:12=r12;0;127;,0,32;;": a struct with a field of a range type.
BoxSymbol ==
    StabsSymbol("Box", "ENUM_STRUCT_OR_TYPE_TAG",
        Named("Box", Numbered(11, StructOf("STRUCT", 4,
            <<StabsField("v", Numbered(12, RangeOf(0, 127)), 0, 32)>>))))

\* " :T1=s8v:13=r13;0;127;,0,32;next:*1,32,32;;": an unnamed struct with a
\* field of a range type and a pointer to itself.
DeepRangeRoot ==
    Numbered(1, StructOf("STRUCT", 8,
                         <<StabsField("v", Numbered(13, RangeOf(0, 127)), 0, 32),
                           StabsField("next", Of("POINTER", ByNumber(1)), 32, 32)>>))

DeepRangeSymbol == StabsSymbol(" ", "ENUM_STRUCT_OR_TYPE_TAG", Named(" ", DeepRangeRoot))

\* The symbols of the file in their order, and the types by number.
FileSymbols ==
    << DataTypeSymbol(RangeType.symbol),
       DataTypeSymbol(VoidType.symbol),
       DataTypeSymbol(IntPtrSymbol),
       FileSymbol(GlobalVariable.symbol, "GLOBAL", 0),
       DataTypeSymbol(RawSymbol),
       DataTypeSymbol(DeepSymbol),
       FileSymbol(EnumType.symbol, "NIL", 1),
       DataTypeSymbol(GetSymbol),
       DataTypeSymbol(BoxSymbol),
       DataTypeSymbol(DeepRangeSymbol) >>

FileTypes == IntTable @@ (1 :> Named(" ", DeepRangeRoot))

MaxSymbols == 2

\* The files: at most MaxSymbols of the symbols, in their order.
RECURSIVE Selected(_, _)
Selected(symbols, chosen) ==
    IF symbols = <<>> THEN <<>>
    ELSE (IF Len(symbols) \in chosen THEN Selected(SubSeq(symbols, 1, Len(symbols) - 1), chosen)
                                             \o <<symbols[Len(symbols)]>>
          ELSE Selected(SubSeq(symbols, 1, Len(symbols) - 1), chosen))

SymbolFiles ==
    {Selected(FileSymbols, chosen) :
        chosen \in {c \in SUBSET (1..Len(FileSymbols)) : Cardinality(c) <= MaxSymbols}}

sy_others == <<ddVars, cmpVars, psVars, impVars, prVars, unVars, sdVars, cpVars, enVars, jsVars, slVars>>

\* The loop reaches a symbol: a data type other than void is translated.
symbols_to_ast_iteration ==
    /\ sy_pc = "loop"
    /\ sy_index <= Len(sy_symbols)
    /\ IF is_data_type(sy_symbols[sy_index]) /\ sy_symbols[sy_index].stabs.name # "void"
       THEN /\ ast_symbol' = sy_symbols[sy_index].stabs
            /\ ast_pc' = "call"
            /\ ast_result' = NoValue
            /\ sy_pc' = "stabs_symbol_to_ast"
            /\ UNCHANGED sy_index
       ELSE /\ sy_index' = sy_index + 1
            /\ UNCHANGED <<ast_symbol, ast_pc, ast_result, sy_pc>>
    /\ UNCHANGED <<sy_symbols, sy_ast_nodes, ast_stabs_types, ast_stack, ast_ret, sy_others>>

\* stabs_symbol_to_ast is back, with a node or with a null pointer.
symbols_to_ast_emplace_back ==
    /\ sy_pc = "stabs_symbol_to_ast"
    /\ ast_pc \in {"returned", "caught"}
    /\ sy_ast_nodes' = IF ast_result # NullNode THEN Append(sy_ast_nodes, ast_result)
                    ELSE sy_ast_nodes
    /\ sy_index' = sy_index + 1
    /\ sy_pc' = "loop"
    /\ ast_pc' = "idle"
    /\ UNCHANGED <<sy_symbols, ast_symbol, ast_result, ast_stabs_types, ast_stack, ast_ret,
                   sy_others>>

symbols_to_ast_return ==
    /\ sy_pc = "loop"
    /\ sy_index > Len(sy_symbols)
    /\ sy_pc' = "returned"
    /\ UNCHANGED <<sy_symbols, sy_index, sy_ast_nodes, astVars, sy_others>>

SymbolsInit ==
    /\ sy_symbols \in SymbolFiles
    /\ sy_index = 1
    /\ sy_pc = "loop"
    /\ sy_ast_nodes = <<>>
    /\ ast_stabs_types = FileTypes
    /\ ast_symbol = NoValue /\ ast_stack = <<>> /\ ast_ret = NoValue
    /\ ast_pc = "idle" /\ ast_result = NoValue
    /\ DedupIdle /\ CompareIdle /\ ParseIdle /\ ImportIdle
    /\ PrintIdle /\ UnccIdle /\ StdumpIdle /\ DeclarationsIdle /\ EnumsIdle /\ JsonIdle /\ SelectionIdle

SymbolsNext ==
    \/ symbols_to_ast_iteration
    \/ symbols_to_ast_emplace_back
    \/ symbols_to_ast_return
    \/ AstNext

SpecSymbols == SymbolsInit /\ [][SymbolsNext]_vars

\* ---- range types ----
AtRange ==
    /\ ast_pc = "run" /\ ast_stack # <<>> /\ ast_ret = NoValue
    /\ InnermostCall.fn = "stabs_type_to_ast"
    /\ InnermostCall.type.has_body
    /\ InnermostCall.type.descriptor = "RANGE"

Returns(node) ==
    /\ ast_ret' = node
    /\ ast_pc' = "run"
    /\ ast_stack' = SubSeq(ast_stack, 1, Len(ast_stack) - 1)

RangeTypeName(type) == TypeName(IF type.has_name THEN type.name ELSE "CCC_RANGE")

\* A range from depth 2 down to the depth limit becomes a TypeName.
C21_Shown ==
    (AtRange /\ InnermostCall.depth \in 2..DepthLimit) =>
        Returns(RangeTypeName(InnermostCall.type))

\* A range above depth 2 gives no node.
C21_Absent == (AtRange /\ InnermostCall.depth < 2) => Returns(NullNode)

\* A caller that gets no node returns none, up to stabs_symbol_to_ast.
C21_Propagates ==
    (ast_pc = "run" /\ ast_ret = NullNode) =>
        IF ast_stack = <<>> THEN ast_pc' = "returned" /\ ast_result' = NullNode
        ELSE Returns(NullNode)

\* symbols_to_ast emits the node it got, and nothing for a null pointer.
C21_Dropped ==
    (sy_pc = "stabs_symbol_to_ast" /\ ast_pc \in {"returned", "caught"}) =>
        sy_ast_nodes' = IF ast_result = NullNode THEN sy_ast_nodes
                        ELSE Append(sy_ast_nodes, ast_result)

C21_NoNullNode == \A i \in DOMAIN sy_ast_nodes : sy_ast_nodes[i] # NullNode

\* C21 (as amended): a Range type reached at a depth from 2 to 1000 is
\* translated to a TypeName node; a Range type reached at depth below 2
\* produces no node, the absence propagates to the root, and symbols_to_ast
\* drops the enclosing top-level declaration from its output.  Deeper than
\* 1000 the call throws CCC_BADRECURSION before it looks at the type.
C21_RangeTypes ==
    [][C21_Shown /\ C21_Absent /\ C21_Propagates /\ C21_Dropped]_vars /\ []C21_NoNullNode

\* Raw, a pointer to a range, was dropped and Deep, a pointer to a pointer
\* to a range, was emitted with the range as a type name.
C21_Witness ==
    /\ sy_pc = "returned"
    /\ sy_symbols = <<DataTypeSymbol(RawSymbol), DataTypeSymbol(DeepSymbol)>>
    /\ Len(sy_ast_nodes) = 1
    /\ sy_ast_nodes[1].name = "Deep"
    /\ sy_ast_nodes[1].child[1].child = <<TypeName("CCC_RANGE")>>

\* C21 (as stated): a Range type reached at any depth from 2 on is
\* translated to a TypeName node.
C21_ShownAtEveryDepth ==
    (AtRange /\ InnermostCall.depth >= 2) => Returns(RangeTypeName(InnermostCall.type))

C21_Original ==
    [][C21_ShownAtEveryDepth /\ C21_Absent /\ C21_Propagates /\ C21_Dropped]_vars
        /\ []C21_NoNullNode

\* ---- bit-fields ----
MultipleOfEight(n) == \E k \in -64..64 : n = 8 * k

\* offset_bits / 8 and offset_bits % 8 as C computes them: the quotient is
\* rounded towards zero and the remainder has the sign of the dividend.
QuotientAndRemainder(n, quotient, remainder) ==
    /\ n = 8 * quotient + remainder
    /\ remainder \in -7..7
    /\ (n >= 0 => remainder >= 0)
    /\ (n <= 0 => remainder <= 0)

C22_Step ==
    FieldReturns =>
        /\ (ast_ret'.descriptor = "BITFIELD") <=>
               ~(MultipleOfEight(InnermostCall.field.offset_bits)
                 /\ MultipleOfEight(InnermostCall.field.size_bits))
        /\ ast_ret'.descriptor = "BITFIELD" =>
               /\ QuotientAndRemainder(InnermostCall.field.offset_bits,
                                       ast_ret'.relative_offset_bytes,
                                       ast_ret'.bitfield_offset_bits)
               /\ ast_ret'.size_bits = InnermostCall.field.size_bits
               /\ ast_ret'.child = <<ast_ret>>
        /\ ast_ret'.descriptor # "BITFIELD" =>
               /\ ast_ret'.descriptor = ast_ret.descriptor
               /\ ast_ret'.child = ast_ret.child
               /\ ast_ret'.size_bits = InnermostCall.field.size_bits
               /\ 8 * ast_ret'.relative_offset_bytes = InnermostCall.field.offset_bits

\* C22: stabs_field_to_ast produces a BitField node if and only if
\* offset_bits % 8 != 0 or size_bits % 8 != 0; for a BitField,
\* relative_offset_bytes = offset_bits / 8, bitfield_offset_bits =
\* offset_bits % 8 and size_bits is the field's size in bits; a field with
\* both values divisible by 8 is translated to an ordinary node of the
\* field's type.
C22_BitFields == [][C22_Step]_vars

\* The struct F: a, b, c and d are bit-fields, e and f are not.
C22_Witness ==
    /\ ast_symbol = BitFields.symbol
    /\ ast_pc = "returned"
    /\ Len(ast_result.fields) = 6
    /\ \A i \in 1..4 : ast_result.fields[i].descriptor = "BITFIELD"
    /\ \A i \in 5..6 : ast_result.fields[i] # NullNode
                       /\ ast_result.fields[i].descriptor = "TYPE_NAME"
    /\ ast_result.fields[2].relative_offset_bytes = 0
    /\ ast_result.fields[2].bitfield_offset_bits = 1
    /\ ast_result.fields[3].relative_offset_bytes = 1
    /\ ast_result.fields[3].size_bits = 12
    /\ ast_result.fields[4].bitfield_offset_bits = -3

(***************************************************************************)
(* Symbol strings split between records (parse_symbols, lines 847-855).    *)
(***************************************************************************)
IsNameColonType(symbol) == symbol.is_stabs /\ symbol.code \in NameColonTypeCodes

EndsWithBackslash(str) == str # <<>> /\ str[Len(str)] = "\\"

\* A record whose string goes on in the next name-colon-type record.
IsContinued(symbol) == IsNameColonType(symbol) /\ EndsWithBackslash(symbol.string)

\* The first record of the run of continued records that ends just before
\* record i (i itself when record i - 1 is not continued).
RunStart(i) ==
    CHOOSE j \in 1..i :
        /\ \A k \in j..(i - 1) : IsContinued(ps_input[k])
        /\ j = 1 \/ ~IsContinued(ps_input[j - 1])

\* The strings of records j..i one after the other, trailing backslashes
\* left out.
RECURSIVE Concatenation(_, _)
Concatenation(j, i) ==
    IF j > i THEN <<>>
    ELSE (IF EndsWithBackslash(ps_input[j].string)
          THEN SubSeq(ps_input[j].string, 1, Len(ps_input[j].string) - 1)
          ELSE ps_input[j].string) \o Concatenation(j + 1, i)

\* The continuation prefix the call holds when it comes to record i, read off
\* the records before it.
RECURSIVE PrefixBefore(_)
PrefixBefore(i) ==
    IF i = 1 THEN <<>>
    ELSE IF IsContinued(ps_input[i - 1])
    THEN PrefixBefore(i - 1) \o Concatenation(i - 1, i - 1)
    ELSE IF IsNameColonType(ps_input[i - 1]) /\ ps_input[i - 1].string # <<>>
    THEN <<>>
    ELSE PrefixBefore(i - 1)

\* The loop is at the record that follows a run of continued records.
AtEndOfRun ==
    /\ ps_pc = "loop"
    /\ ps_index <= Len(ps_input)
    /\ IsNameColonType(ps_input[ps_index])
    /\ ~EndsWithBackslash(ps_input[ps_index].string)
    /\ RunStart(ps_index) < ps_index

\* The iteration parses the concatenation once, emits at most one symbol for
\* the run and leaves the prefix empty.
ParsesTheRun ==
    /\ \E r \in {parse_name_colon_type(ps_index, Concatenation(RunStart(ps_index), ps_index), ps_output, parser_flags, ps_warnings)} :
          /\ ps_output' = r.output
          /\ ps_warnings' = r.warnings
          /\ parser_flags' = r.parser_flags
          /\ ps_result' = r.result
          /\ (ps_pc' = "returned") = r.returned
    /\ ps_prefix' = <<>>
    /\ Len(ps_output') <= Len(ps_output) + 1
    /\ \A k \in 1..Len(ps_output') : ps_output'[k].raw \notin RunStart(ps_index)..(ps_index - 1)

\* The emitted symbols point at records of increasing position.
KeepsRecordOrder ==
    \A a, b \in 1..Len(ps_output) : a < b => ps_output[a].raw < ps_output[b].raw

C23_Step ==
    (/\ AtEndOfRun
     /\ ps_input[ps_index].string # <<>>
     /\ PrefixBefore(RunStart(ps_index)) = <<>>) => ParsesTheRun

\* C23 (amended): for consecutive name-colon-type records whose strings end
\* with a backslash, met with an empty continuation prefix and followed by a
\* name-colon-type record whose string is not empty and does not end with a
\* backslash, parse_symbols parses one symbol from the concatenation of the
\* strings in record order with each trailing backslash removed, emits at
\* most one ParsedSymbol for the whole run and leaves the prefix empty; the
\* emitted ParsedSymbols keep the order of the input records.
C23_Continuation == [][C23_Step]_vars /\ []KeepsRecordOrder

\* A string split in two records was parsed as one, gave one symbol that
\* points at the second record, and the record after it was handled too.
C23_Witness ==
    /\ Len(ps_input) = 3
    /\ ps_input[1].string = ContinuedString
    /\ ps_input[2].string = ContinuationString
    /\ ps_index >= 3
    /\ ps_prefix = <<>>
    /\ Len(ps_output) >= 1
    /\ ps_output[1].raw = 2
    /\ ps_output[1].type = "NAME_COLON_TYPE"
    /\ ps_output[1].name_colon_type.name = "Enum"

C23_OriginalStep == AtEndOfRun => ParsesTheRun

\* C23 as stated: every run of continued records followed by a record whose
\* string does not end with a backslash is parsed as one symbol, whatever the
\* prefix held before the run and whether the last string is empty or not.
C23_Original == [][C23_OriginalStep]_vars /\ []KeepsRecordOrder

(***************************************************************************)
(* CppPrinter::data_type, global_variable, function and comment_block_file *)
(* (part_002): the blank lines between top-level declarations.  The text   *)
(* ast_node writes for a declaration is left out; ast_node reads and       *)
(* writes neither has_anything_been_printed nor last_wants_spacing.        *)
(***************************************************************************)
MaxCalls == 3

\* The arguments of the calls.
AstVariable(storage_class, data) == [storage_class |-> storage_class, data |-> data]
FunctionDefinition(storage_class, is_member_function_ish, locals) ==
    [storage_class |-> storage_class, is_member_function_ish |-> is_member_function_ish,
     locals |-> locals]

Call(name, node) == [call |-> name, node |-> node]

CallPool ==
    {Call("data_type", Node("BUILTIN")),
     Call("data_type", [InlineEnum(<<>>) EXCEPT !.name = "E"]),
     Call("data_type", [InlineStructOrUnion EXCEPT !.name = "S"]),
     Call("data_type", [TypeName("int") EXCEPT !.name = "T"]),
     Call("global_variable", AstVariable("STATIC", <<>>)),
     Call("global_variable", AstVariable("NONE", <<>>)),
     Call("global_variable", AstVariable("NONE", <<Node("INITIALIZER_LIST")>>)),
     Call("function", FunctionDefinition("STATIC", FALSE, <<>>)),
     Call("function", FunctionDefinition("NONE", TRUE, <<>>)),
     Call("function", FunctionDefinition("NONE", FALSE, <<"local">>)),
     Call("function", FunctionDefinition("NONE", FALSE, <<>>)),
     Call("comment_block_file", [path |-> "a.c"])}

\* The flags of the printer; function_bodies is whether the pointer is set.
PrinterOptions ==
    {[skip_statics |-> FALSE, print_variable_data |-> FALSE,
      print_function_bodies |-> FALSE, skip_member_functions_outside_types |-> FALSE,
      function_bodies |-> FALSE],
     [skip_statics |-> TRUE, print_variable_data |-> TRUE,
      print_function_bodies |-> TRUE, skip_member_functions_outside_types |-> TRUE,
      function_bodies |-> FALSE],
     [skip_statics |-> FALSE, print_variable_data |-> TRUE,
      print_function_bodies |-> TRUE, skip_member_functions_outside_types |-> FALSE,
      function_bodies |-> TRUE]}

\* "if(has_anything_been_printed && (last_wants_spacing || wants_spacing))
\* fprintf(out, "\n");" and the declaration after it.
Written(wants_spacing) ==
    Append(cp_out, [call |-> cp_index,
                    blank |-> has_anything_been_printed
                              /\ (last_wants_spacing \/ wants_spacing)])

cp_frame == <<cp_options, cp_calls, pr_pc, pr_run, pr_input, pr_out, pr_first_out, ddVars, cmpVars, astVars, psVars, impVars, unVars, sdVars, symVars, enVars, jsVars, slVars>>

AtCall(name) ==
    /\ cp_pc = "printing"
    /\ cp_index <= Len(cp_calls)
    /\ cp_calls[cp_index].call = name

\* CppPrinter::comment_block_file (lines 82-93).
comment_block_file ==
    /\ AtCall("comment_block_file")
    /\ cp_out' = Append(cp_out, [call |-> cp_index, blank |-> has_anything_been_printed])
    /\ last_wants_spacing' = TRUE
    /\ has_anything_been_printed' = TRUE
    /\ cp_index' = cp_index + 1
    /\ UNCHANGED <<cp_pc, cp_frame>>

\* CppPrinter::data_type (lines 130-163).
data_type ==
    /\ AtCall("data_type")
    /\ IF cp_calls[cp_index].node.descriptor = "BUILTIN"
       THEN UNCHANGED <<cp_out, last_wants_spacing, has_anything_been_printed>>
       ELSE \E wants_spacing \in {cp_calls[cp_index].node.descriptor \in {"INLINE_ENUM", "INLINE_STRUCT_OR_UNION"}} :
               /\ cp_out' = Written(wants_spacing)
               /\ last_wants_spacing' = wants_spacing
               /\ has_anything_been_printed' = TRUE
    /\ cp_index' = cp_index + 1
    /\ UNCHANGED <<cp_pc, cp_frame>>

\* A global_variable that records that something was printed.
has_anything_been_printed_set(has_anything) == TRUE

\* CppPrinter::global_variable leaves has_anything_been_printed as it is
\* (lines 176-181).
has_anything_been_printed_after_global(has_anything) == has_anything

\* CppPrinter::global_variable (lines 165-182).
global_variable ==
    /\ AtCall("global_variable")
    /\ IF cp_options.skip_statics /\ cp_calls[cp_index].node.storage_class = "STATIC"
       THEN UNCHANGED <<cp_out, last_wants_spacing, has_anything_been_printed>>
       ELSE \E wants_spacing \in {/\ cp_options.print_variable_data
                                  /\ cp_calls[cp_index].node.data # <<>>
                                  /\ cp_calls[cp_index].node.data[1].descriptor = "INITIALIZER_LIST"} :
               /\ cp_out' = Written(wants_spacing)
               /\ last_wants_spacing' = wants_spacing
               /\ has_anything_been_printed' = has_anything_been_printed_after_global(has_anything_been_printed)
    /\ cp_index' = cp_index + 1
    /\ UNCHANGED <<cp_pc, cp_frame>>

\* CppPrinter::function (lines 184-205).
function ==
    /\ AtCall("function")
    /\ IF \/ cp_options.skip_statics /\ cp_calls[cp_index].node.storage_class = "STATIC"
          \/ /\ cp_options.skip_member_functions_outside_types
             /\ cp_calls[cp_index].node.is_member_function_ish
       THEN UNCHANGED <<cp_out, last_wants_spacing, has_anything_been_printed>>
       ELSE \E wants_spacing \in {/\ cp_options.print_function_bodies
                                  /\ (cp_calls[cp_index].node.locals # <<>>
                                      \/ cp_options.function_bodies)} :
               /\ cp_out' = Written(wants_spacing)
               /\ last_wants_spacing' = wants_spacing
               /\ has_anything_been_printed' = TRUE
    /\ cp_index' = cp_index + 1
    /\ UNCHANGED <<cp_pc, cp_frame>>

DeclarationsInit ==
    /\ cp_pc = "printing"
    /\ cp_options \in PrinterOptions
    /\ \E n \in 0..MaxCalls : cp_calls \in [1..n -> CallPool]
    /\ cp_index = 1
    /\ cp_out = <<>>
    /\ PrintIdle
    /\ DedupIdle /\ CompareIdle /\ AstIdle /\ ParseIdle /\ ImportIdle
    /\ UnccIdle /\ StdumpIdle /\ SymbolsIdle /\ EnumsIdle /\ JsonIdle /\ SelectionIdle

DeclarationsNext ==
    \/ comment_block_file
    \/ data_type
    \/ global_variable
    \/ function

SpecDeclarations == DeclarationsInit /\ [][DeclarationsNext]_vars

\* Whether an item wants spacing: an enum, a struct or union, a global with
\* an initializer list that is printed, a function definition printed with a
\* body; a comment block is followed by a blank line like these.
WantsSpacing(c) ==
    CASE c.call = "data_type" ->
            c.node.descriptor \in {"INLINE_ENUM", "INLINE_STRUCT_OR_UNION"}
      [] c.call = "global_variable" ->
            /\ cp_options.print_variable_data
            /\ c.node.data # <<>>
            /\ c.node.data[1].descriptor = "INITIALIZER_LIST"
      [] c.call = "function" ->
            /\ cp_options.print_function_bodies
            /\ (c.node.locals # <<>> \/ cp_options.function_bodies)
      [] OTHER -> TRUE

IsDeclaration(c) == c.call \in {"data_type", "global_variable", "function"}

\* C24: a blank line is written before a printed declaration if and only if
\* an earlier declaration or comment block has been printed and the item
\* printed last or the declaration itself wants spacing.
C24_BlankLines ==
    \A p \in 1..Len(cp_out) :
        IsDeclaration(cp_calls[cp_out[p].call]) =>
            (cp_out[p].blank <=>
                /\ p > 1
                /\ (WantsSpacing(cp_calls[cp_out[p - 1].call])
                    \/ WantsSpacing(cp_calls[cp_out[p].call])))

\* A struct printed after a global variable that was the first thing printed.
C24_StructAfterGlobal ==
    /\ Len(cp_out) = 2
    /\ cp_calls[cp_out[1].call].call = "global_variable"
    /\ cp_calls[cp_out[2].call].node = [InlineStructOrUnion EXCEPT !.name = "S"]

(***************************************************************************)
(* remove_duplicate_enums (ccc/ast.cpp, lines 301-324).                    *)
(***************************************************************************)
MaxEnumNodes == 3

\* Line 306: "node.name == "" || node.name == " "" of an INLINE_ENUM node.
is_unnamed_enum(node) ==
    node.descriptor = "INLINE_ENUM" /\ (node.name = "" \/ node.name = " ")

\* A match with any other enum of the same constants, named or not.
is_match_with_any_enum(ast_nodes, i, j) ==
    /\ j # i
    /\ ast_nodes[j].descriptor = "INLINE_ENUM"
    /\ ast_nodes[j].constants = ast_nodes[i].constants

\* Lines 309-312: other is element j, node is element i.
is_match(ast_nodes, i, j) ==
    /\ j # i
    /\ ast_nodes[j].descriptor = "INLINE_ENUM"
    /\ (ast_nodes[j].name # "" /\ ast_nodes[j].name # " ")
    /\ ast_nodes[j].constants = ast_nodes[i].constants

\* "ast_nodes.erase(ast_nodes.begin() + i)", i counted from 1.
erase(ast_nodes, i) ==
    SubSeq(ast_nodes, 1, i - 1) \o SubSeq(ast_nodes, i + 1, Len(ast_nodes))

en_others == <<ddVars, cmpVars, astVars, psVars, impVars, prVars, unVars, sdVars, symVars, cpVars, jsVars, slVars>>

\* One pass through the body of the outer loop.  After an erase "i--" and
\* the "i++" of the loop leave i where it was (for i = 0 the size_t wraps to
\* its largest value and back).
remove_duplicate_enums_iteration ==
    /\ en_pc = "loop"
    /\ en_i <= Len(en_nodes)
    /\ IF /\ is_unnamed_enum(en_nodes[en_i])
          /\ \E j \in 1..Len(en_nodes) : is_match(en_nodes, en_i, j)
       THEN /\ en_nodes' = erase(en_nodes, en_i)
            /\ en_i' = en_i
       ELSE /\ en_i' = en_i + 1
            /\ UNCHANGED en_nodes
    /\ UNCHANGED <<en_pc, en_input, en_others>>

remove_duplicate_enums_return ==
    /\ en_pc = "loop"
    /\ en_i > Len(en_nodes)
    /\ en_pc' = "returned"
    /\ UNCHANGED <<en_input, en_nodes, en_i, en_others>>

ConstantsA == <<<<0, "A">>, <<1, "B">>>>
ConstantsB == <<<<0, "A">>>>

EnumNodePool ==
    {[InlineEnum(ConstantsA) EXCEPT !.name = ""],
     [InlineEnum(ConstantsA) EXCEPT !.name = " "],
     [InlineEnum(ConstantsA) EXCEPT !.name = "Named"],
     [InlineEnum(ConstantsB) EXCEPT !.name = ""],
     [InlineEnum(ConstantsB) EXCEPT !.name = "Other"],
     [InlineEnum(<<>>) EXCEPT !.name = " "],
     [InlineStructOrUnion EXCEPT !.name = ""],
     [TypeName("int") EXCEPT !.name = "Named"]}

EnumsInit ==
    /\ \E n \in 0..MaxEnumNodes : en_input \in [1..n -> EnumNodePool]
    /\ en_nodes = en_input
    /\ en_i = 1
    /\ en_pc = "loop"
    /\ DedupIdle /\ CompareIdle /\ AstIdle /\ ParseIdle /\ ImportIdle
    /\ PrintIdle /\ UnccIdle /\ StdumpIdle /\ SymbolsIdle /\ DeclarationsIdle /\ JsonIdle /\ SelectionIdle

EnumsNext ==
    \/ remove_duplicate_enums_iteration
    \/ remove_duplicate_enums_return

SpecEnums == EnumsInit /\ [][EnumsNext]_vars

IsNamedEnum(node) ==
    node.descriptor = "INLINE_ENUM" /\ node.name # "" /\ node.name # " "

\* An anonymous enum of the list that has a named enum with the same
\* constants in the list.
HasNamedCounterpart(node, nodes) ==
    /\ node.descriptor = "INLINE_ENUM"
    /\ node.name \in {"", " "}
    /\ \E k \in 1..Len(nodes) : IsNamedEnum(nodes[k]) /\ nodes[k].constants = node.constants

IsRetained(node) == ~HasNamedCounterpart(node, en_input)

\* C25: after remove_duplicate_enums the list holds no anonymous inline enum
\* whose constants equal those of a named inline enum of the list, and it is
\* the list passed in with exactly those enums taken out: every other node
\* is retained, in its original relative order.
C25_RemovesDuplicateEnums ==
    en_pc = "returned" =>
        /\ \A k \in 1..Len(en_nodes) : ~HasNamedCounterpart(en_nodes[k], en_nodes)
        /\ en_nodes = SelectSeq(en_input, IsRetained)

\* One anonymous enum was removed next to its named counterpart, another one
\* with no named counterpart was kept.
C25_Witness ==
    /\ en_pc = "returned"
    /\ Len(en_input) = 3
    /\ Len(en_nodes) = 2
    /\ \E k \in 1..2 : is_unnamed_enum(en_nodes[k])
    /\ \E k \in 1..2 : IsNamedEnum(en_nodes[k])

(***************************************************************************)
(* Structs and unions under compare_ast_nodes and deduplicate_ast.         *)
(***************************************************************************)
\* C26: compare_ast_nodes reports a difference between a struct node and a
\* union node, also when name, size, base classes, fields and member
\* functions are the same.
C26_StructDiffersFromUnion ==
    (/\ cmp_pc = "returned"
     /\ cmp_lhs.descriptor = "INLINE_STRUCT_OR_UNION"
     /\ cmp_rhs.descriptor = "INLINE_STRUCT_OR_UNION"
     /\ cmp_lhs.is_union # cmp_rhs.is_union) => cmp_result # nullopt

\* C27: after deduplicate_ast no two groups have the same name, no group is
\* empty, every sibling has the name its group is indexed by, and no two
\* distinct siblings of a group compare equal under compare_ast_nodes.
C27_Groups ==
    dd_pc = "returned" =>
        /\ \A g, h \in DOMAIN deduplicated_nodes :
              g # h => deduplicated_nodes[g][1].name # deduplicated_nodes[h][1].name
        /\ \A g \in DOMAIN deduplicated_nodes : deduplicated_nodes[g] # <<>>
        /\ \A name \in DOMAIN name_to_deduplicated_index :
              \A i \in DOMAIN deduplicated_nodes[name_to_deduplicated_index[name] + 1] :
                 deduplicated_nodes[name_to_deduplicated_index[name] + 1][i].name = name
        /\ \A g \in DOMAIN deduplicated_nodes :
              /\ \E name \in DOMAIN name_to_deduplicated_index :
                    name_to_deduplicated_index[name] + 1 = g
              /\ \A i, j \in DOMAIN deduplicated_nodes[g] :
                    i # j => compare_ast_nodes(deduplicated_nodes[g][i],
                                               deduplicated_nodes[g][j]) # nullopt

\* A call that merged nodes and returned two groups, one of them with three
\* differing siblings.
C27_Witness ==
    /\ dd_pc = "returned" /\ dd_run = 1
    /\ Len(deduplicated_nodes) = 2
    /\ \E g \in DOMAIN deduplicated_nodes : Len(deduplicated_nodes[g]) = 3
    /\ Len(input_nodes(dd_input, 1)) = 4

(***************************************************************************)
(* write_json(JsonWriter&, const SymbolDatabase&, ...) and the per-symbol  *)
(* writers (part_001, lines 1014-1272).  The JsonWriter is the sequence of *)
(* calls made on it.  Symbols have no type(): the AST writer is not part   *)
(* of these lines.                                                         *)
(***************************************************************************)
MaxJsonSymbols == 2

json_StartObject == [event |-> "StartObject"]
json_EndObject == [event |-> "EndObject"]
json_StartArray == [event |-> "StartArray"]
json_EndArray == [event |-> "EndArray"]
json_Key(k) == [event |-> "Key", key |-> k]
json_String(v) == [event |-> "String", value |-> v]
json_Int(v) == [event |-> "Int", value |-> v]
json_Uint(v) == [event |-> "Uint", value |-> v]
json_Bool(v) == [event |-> "Bool", value |-> v]

\* The value a function outside these lines returns for an argument.
ResultOf(f, argument) == [function |-> f, argument |-> argument]

\* A handle or an address: valid() and value.
Handle(value) == [valid |-> TRUE, value |-> value]
InvalidHandle == [valid |-> FALSE, value |-> 0]

GlobalStorage(location) == [type |-> "global", location |-> location]
RegisterStorage(dbx_register_number, is_by_reference) ==
    [type |-> "register", dbx_register_number |-> dbx_register_number,
     is_by_reference |-> is_by_reference]
StackStorage(stack_pointer_offset) ==
    [type |-> "stack", stack_pointer_offset |-> stack_pointer_offset]

\* The events a member written under a condition gives.
When(condition, events) == IF condition THEN events ELSE <<>>

RECURSIVE EachOf(_, _, _)
\* "for(x : list) { ... }": the events of Op(x) for every element from i on.
EachOf(list, Op(_), i) ==
    IF i > Len(list) THEN <<>> ELSE Op(list[i]) \o EachOf(list, Op, i + 1)

\* A GlobalStorage writer that gives the key "address" a value.
global_storage_address_with_value(storage) == <<json_Key("address"), json_Uint(0)>>

\* Lines 1057-1058: json.Key("address"); json.EndObject();
global_storage_address(storage) == <<json_Key("address")>>

\* write_json(json, const GlobalStorage&, database), lines 1049-1059.
write_json_GlobalStorage(storage) ==
    <<json_Key("storage"), json_StartObject,
      json_Key("type"), json_String("global"),
      json_Key("location"),
      json_String(ResultOf("global_storage_location_to_string", storage.location))>>
    \o global_storage_address(storage)
    \o <<json_EndObject>>

\* write_json(json, const RegisterStorage&, database), lines 1061-1080.
write_json_RegisterStorage(storage) ==
    <<json_Key("storage"), json_StartObject,
      json_Key("type"), json_String("register"),
      json_Key("register"),
      json_String(ResultOf("REGISTER_STRING_TABLES", storage.dbx_register_number)),
      json_Key("register_class"),
      json_String(ResultOf("REGISTER_CLASSES", storage.dbx_register_number)),
      json_Key("dbx_register_number"), json_Int(storage.dbx_register_number),
      json_Key("register_index"),
      json_Int(ResultOf("register_index_relative", storage.dbx_register_number)),
      json_Key("is_by_reference"), json_Bool(storage.is_by_reference),
      json_EndObject>>

\* write_json(json, const StackStorage&, database), lines 1082-1091.
write_json_StackStorage(storage) ==
    <<json_Key("storage"), json_StartObject,
      json_Key("type"), json_String("stack"),
      json_Key("offset"), json_Int(storage.stack_pointer_offset),
      json_EndObject>>

file_value(file) == <<json_Uint(file)>>

\* A DataType writer that writes the array when there are files.
files_are_written_when_present(files) == files # <<>>

\* Line 1095: "if(symbol.files.empty())".
files_are_written(files) == files = <<>>

\* write_json(json, const DataType&, database), lines 1093-1103.
write_json_DataType(symbol) ==
    When(files_are_written(symbol.files),
         <<json_Key("files"), json_StartArray>>
         \o EachOf(symbol.files, file_value, 1)
         \o <<json_EndArray>>)

line_number_pair(pair) ==
    <<json_StartArray, json_Uint(pair.address), json_Int(pair.line_number), json_EndArray>>
sub_source_file(sub) ==
    <<json_StartArray, json_Uint(sub.address), json_String(sub.relative_path),
      json_EndArray>>

\* write_json(json, const Function&, database), lines 1105-1150.
write_json_Function(symbol) ==
    When(symbol.size # 0, <<json_Key("size"), json_Uint(symbol.size)>>)
    \o When(symbol.relative_path # "",
            <<json_Key("relative_path"), json_String(symbol.relative_path)>>)
    \o When(symbol.storage_class # "NONE",
            <<json_Key("storage_class"),
              json_String(ResultOf("storage_class_to_string", symbol.storage_class))>>)
    \o When(symbol.line_numbers # <<>>,
            <<json_Key("line_numbers"), json_StartArray>>
            \o EachOf(symbol.line_numbers, line_number_pair, 1)
            \o <<json_EndArray>>)
    \o When(symbol.sub_source_files # <<>>,
            <<json_Key("sub_source_files"), json_StartArray>>
            \o EachOf(symbol.sub_source_files, sub_source_file, 1)
            \o <<json_EndArray>>)
    \o When(symbol.is_member_function_ish,
            <<json_Key("is_member_function_ish"),
              json_Bool(symbol.is_member_function_ish)>>)

write_address(symbol) ==
    When(symbol.address.valid, <<json_Key("address"), json_Uint(symbol.address.value)>>)

\* write_json(json, const GlobalVariable&, database), lines 1152-1170.
write_json_GlobalVariable(symbol) ==
    write_address(symbol)
    \o write_json_GlobalStorage(symbol.storage)
    \o When(symbol.storage_class # "NONE",
            <<json_Key("storage_class"),
              json_String(ResultOf("storage_class_to_string", symbol.storage_class))>>)
    \o When(symbol.source_file.valid,
            <<json_Key("source_file"), json_Uint(symbol.source_file.value)>>)

write_function(symbol) ==
    When(symbol.function.valid,
         <<json_Key("function"),
           json_Uint(ResultOf("index_from_handle", symbol.function.value))>>)

\* write_json(json, const LocalVariable&, database), lines 1180-1210.
write_json_LocalVariable(symbol) ==
    write_function(symbol)
    \o write_address(symbol)
    \o When(symbol.storage.type = "global", write_json_GlobalStorage(symbol.storage))
    \o When(symbol.storage.type = "register", write_json_RegisterStorage(symbol.storage))
    \o When(symbol.storage.type = "stack", write_json_StackStorage(symbol.storage))
    \o When(symbol.live_range.valid,
            <<json_Key("live_range"), json_StartArray,
              json_Uint(symbol.live_range.low), json_Uint(symbol.live_range.high),
              json_EndArray>>)

\* write_json(json, const ParameterVariable&, database), lines 1212-1226.
write_json_ParameterVariable(symbol) ==
    When(symbol.storage.type = "register", write_json_RegisterStorage(symbol.storage))
    \o When(symbol.storage.type = "stack", write_json_StackStorage(symbol.storage))
    \o write_function(symbol)

\* write_json(json, const Section&, database), lines 1228-1234.
write_json_Section(symbol) ==
    When(symbol.size # 0, <<json_Key("size"), json_Uint(symbol.size)>>)

info_string(info) == <<json_String(info)>>

\* write_json(json, const SourceFile&, database), lines 1236-1264.
write_json_SourceFile(symbol) ==
    When(symbol.relative_path # "",
         <<json_Key("relative_path"), json_String(symbol.relative_path)>>)
    \o When(symbol.text_address # 0,
            <<json_Key("text_address"), json_Uint(symbol.text_address)>>)
    \o When(symbol.toolchain_version_info # <<>>,
            <<json_Key("toolchain_version"), json_StartArray>>
            \o EachOf(symbol.toolchain_version_info, info_string, 1)
            \o <<json_EndArray>>)
    \o When(symbol.functions.valid,
            <<json_Key("functions"), json_StartArray, json_EndArray>>)

\* The symbol lists CCC_FOR_EACH_SYMBOL_TYPE_DO_X goes through, in the order
\* the writers are declared in (lines 1004-1012).
SymbolLists ==
    <<"data_types", "functions", "global_variables", "labels", "local_variables",
      "parameter_variables", "sections", "source_files", "symbol_sources">>

\* The overload of write_json the macro expansion calls for a symbol.
write_json_of(symbol) ==
    CASE symbol.list = "data_types" -> write_json_DataType(symbol)
      [] symbol.list = "functions" -> write_json_Function(symbol)
      [] symbol.list = "global_variables" -> write_json_GlobalVariable(symbol)
      [] symbol.list = "local_variables" -> write_json_LocalVariable(symbol)
      [] symbol.list = "parameter_variables" -> write_json_ParameterVariable(symbol)
      [] symbol.list = "sections" -> write_json_Section(symbol)
      [] symbol.list = "source_files" -> write_json_SourceFile(symbol)
      [] OTHER -> write_address(symbol)

\* The body of the loop of CCC_X for one symbol (lines 1023-1039).
write_json_symbol_events(symbol) ==
    <<json_StartObject,
      json_Key("name"), json_String(symbol.name),
      json_Key("source"), json_Uint(symbol.source)>>
    \o write_json_of(symbol)
    \o <<json_EndObject>>

js_others == <<ddVars, cmpVars, astVars, psVars, impVars, prVars, unVars, sdVars, symVars, cpVars, enVars, slVars>>

CurrentList == js_database[SymbolLists[js_list]]

\* Lines 1016-1019.
write_json_begin ==
    /\ js_pc = "begin"
    /\ js_events' = js_events \o <<json_StartObject, json_Key("version"), json_Int(8)>>
    /\ js_pc' = "lists"
    /\ UNCHANGED <<js_database, js_list, js_index, js_others>>

\* Lines 1021-1023: json.Key(#symbol_list); json.StartArray();
write_json_list_begin ==
    /\ js_pc = "lists"
    /\ js_index = 0
    /\ js_events' = js_events \o <<json_Key(SymbolLists[js_list]), json_StartArray>>
    /\ js_index' = 1
    /\ UNCHANGED <<js_pc, js_database, js_list, js_others>>

\* One pass through the loop of CCC_X.
write_json_symbol ==
    /\ js_pc = "lists"
    /\ js_index >= 1
    /\ js_index <= Len(CurrentList)
    /\ js_events' = js_events \o write_json_symbol_events(CurrentList[js_index])
    /\ js_index' = js_index + 1
    /\ UNCHANGED <<js_pc, js_database, js_list, js_others>>

\* Line 1041, and line 1046 after the last list.
write_json_list_end ==
    /\ js_pc = "lists"
    /\ js_index > Len(CurrentList)
    /\ IF js_list < Len(SymbolLists)
       THEN /\ js_events' = Append(js_events, json_EndArray)
            /\ js_list' = js_list + 1
            /\ js_index' = 0
            /\ UNCHANGED js_pc
       ELSE /\ js_events' = js_events \o <<json_EndArray, json_EndObject>>
            /\ js_pc' = "returned"
            /\ UNCHANGED <<js_list, js_index>>
    /\ UNCHANGED <<js_database, js_others>>

JsonSymbol(list, name, members) == [list |-> list, name |-> name, source |-> 1] @@ members

Line(address, line_number) == [address |-> address, line_number |-> line_number]
Sub(address, relative_path) == [address |-> address, relative_path |-> relative_path]

JsonSymbolPool ==
    {JsonSymbol("data_types", "Empty", [files |-> <<>>]),
     JsonSymbol("data_types", "Struct", [files |-> <<3, 1>>]),
     JsonSymbol("functions", "plain",
                [size |-> 0, relative_path |-> "", storage_class |-> "NONE",
                 line_numbers |-> <<>>, sub_source_files |-> <<>>,
                 is_member_function_ish |-> FALSE]),
     JsonSymbol("functions", "full",
                [size |-> 16, relative_path |-> "a.c", storage_class |-> "STATIC",
                 line_numbers |-> <<Line(4096, 1), Line(4100, 2)>>,
                 sub_source_files |-> <<Sub(4096, "a.h")>>,
                 is_member_function_ish |-> TRUE]),
     JsonSymbol("global_variables", "g",
                [address |-> Handle(8192), storage |-> GlobalStorage("DATA"),
                 storage_class |-> "STATIC", source_file |-> Handle(0)]),
     JsonSymbol("labels", "l", [address |-> Handle(4096)]),
     JsonSymbol("local_variables", "static_local",
                [function |-> Handle(0), address |-> Handle(8196),
                 storage |-> GlobalStorage("BSS"),
                 live_range |-> [valid |-> FALSE, low |-> 0, high |-> 0]]),
     JsonSymbol("local_variables", "register_local",
                [function |-> Handle(0), address |-> InvalidHandle,
                 storage |-> RegisterStorage(4, FALSE),
                 live_range |-> [valid |-> TRUE, low |-> 4096, high |-> 4100]]),
     JsonSymbol("local_variables", "stack_local",
                [function |-> InvalidHandle, address |-> InvalidHandle,
                 storage |-> StackStorage(-8),
                 live_range |-> [valid |-> FALSE, low |-> 0, high |-> 0]]),
     JsonSymbol("parameter_variables", "register_parameter",
                [function |-> Handle(0), storage |-> RegisterStorage(5, TRUE)]),
     JsonSymbol("parameter_variables", "stack_parameter",
                [function |-> InvalidHandle, storage |-> StackStorage(16)]),
     JsonSymbol("sections", ".text", [size |-> 256]),
     JsonSymbol("source_files", "a.c",
                [relative_path |-> "a.c", text_address |-> 4096,
                 toolchain_version_info |-> <<"gcc", "2.95">>,
                 functions |-> Handle(0)]),
     JsonSymbol("symbol_sources", "Symbol Table", [address |-> InvalidHandle])}

\* The database whose lists hold the given symbols, each in the given order.
Database(symbols) ==
    [list \in {SymbolLists[k] : k \in DOMAIN SymbolLists} |->
        SelectSeq(symbols, LAMBDA symbol : symbol.list = list)]

JsonInit ==
    /\ \E n \in 0..MaxJsonSymbols :
          \E symbols \in [1..n -> JsonSymbolPool] : js_database = Database(symbols)
    /\ js_pc = "begin"
    /\ js_list = 1
    /\ js_index = 0
    /\ js_events = <<>>
    /\ DedupIdle /\ CompareIdle /\ AstIdle /\ ParseIdle /\ ImportIdle
    /\ PrintIdle /\ UnccIdle /\ StdumpIdle /\ SymbolsIdle /\ DeclarationsIdle /\ EnumsIdle /\ SelectionIdle

JsonNext ==
    \/ write_json_begin
    \/ write_json_list_begin
    \/ write_json_symbol
    \/ write_json_list_end

SpecJson == JsonInit /\ [][JsonNext]_vars

\* What an event leaves on the stack of open containers: "key" is an object
\* that expects a key or its end, "value" an object that expects the value
\* of the key just written, "array" an array, "top" the place of the one
\* top-level value and "done" that place once the value is complete.
Completed(stack) ==
    [stack EXCEPT ![Len(stack)] =
        CASE stack[Len(stack)] = "value" -> "key"
          [] stack[Len(stack)] = "top" -> "done"
          [] OTHER -> stack[Len(stack)]]

ExpectsValue(stack) == stack[Len(stack)] \in {"value", "array", "top"}

\* The stack after an event, in a set that is empty when the event may not
\* come at this place.
After(e, stack) ==
    CASE e.event = "Key" ->
            IF stack[Len(stack)] = "key"
            THEN {[stack EXCEPT ![Len(stack)] = "value"]} ELSE {}
      [] e.event = "EndObject" ->
            IF stack[Len(stack)] = "key"
            THEN {Completed(SubSeq(stack, 1, Len(stack) - 1))} ELSE {}
      [] e.event = "EndArray" ->
            IF stack[Len(stack)] = "array"
            THEN {Completed(SubSeq(stack, 1, Len(stack) - 1))} ELSE {}
      [] e.event = "StartObject" ->
            IF ExpectsValue(stack) THEN {Append(stack, "key")} ELSE {}
      [] e.event = "StartArray" ->
            IF ExpectsValue(stack) THEN {Append(stack, "array")} ELSE {}
      [] OTHER ->
            IF ExpectsValue(stack) THEN {Completed(stack)} ELSE {}

RECURSIVE WellFormedFrom(_, _, _)
WellFormedFrom(events, i, stack) ==
    IF i > Len(events) THEN stack = <<"done">>
    ELSE \E next \in After(events[i], stack) : WellFormedFrom(events, i + 1, next)

WellFormed(events) == WellFormedFrom(events, 1, <<"top">>)

\* C28: the events written for a database are well formed: in every object
\* each Key is followed by exactly one value before the next Key or the
\* EndObject, every StartObject and StartArray is closed by its matching
\* end, and the top-level object begins with version 8.
C28_WellFormed ==
    js_pc = "returned" =>
        /\ WellFormed(js_events)
        /\ SubSeq(js_events, 1, 3) = <<json_StartObject, json_Key("version"), json_Int(8)>>

\* The events of one symbol: what the pass through the loop appended.
Appended == SubSeq(js_events', Len(js_events) + 1, Len(js_events'))

AtDataType ==
    /\ js_pc = "lists"
    /\ SymbolLists[js_list] = "data_types"
    /\ js_index >= 1
    /\ js_index <= Len(CurrentList)

\* The "files" array of a list of files, as it should be written.
FilesArray(files) ==
    <<json_Key("files"), json_StartArray>>
    \o [k \in 1..Len(files) |-> json_Uint(files[k])]
    \o <<json_EndArray>>

HasFilesKey(events) ==
    \E k \in 1..Len(events) : events[k].event = "Key" /\ events[k].key = "files"

C29_Step ==
    AtDataType =>
        IF CurrentList[js_index].files # <<>>
        THEN \E k \in 1..Len(Appended) :
                /\ k + Len(CurrentList[js_index].files) + 2 <= Len(Appended)
                /\ SubSeq(Appended, k, k + Len(CurrentList[js_index].files) + 2)
                       = FilesArray(CurrentList[js_index].files)
        ELSE ~HasFilesKey(Appended)

\* C29: for a DataType with a non-empty list of files the writer emits the
\* key "files" and an array of the handle values of the files in list order;
\* for a DataType with no files it emits no "files" key.
C29_Files == [][C29_Step]_vars

(***************************************************************************)
(* uncc: parse_sources_list and the loops of main that choose the source   *)
(* files named in SOURCES.txt and write them (uncc.cpp, lines 35-99).      *)
(***************************************************************************)
MaxSourceFiles == 3

\* skip_whitespace (lines 113-117).
RECURSIVE skip_whitespace(_)
skip_whitespace(input) ==
    IF Len(input) > 0 /\ isspace(SubSeq(input, 1, 1))
    THEN skip_whitespace(SubSeq(input, 2, Len(input)))
    ELSE input

\* The i of eat_identifier when its loop ends (line 106), counted from 1.
RECURSIVE identifier_end(_, _)
identifier_end(input, i) ==
    IF i <= Len(input) /\ ~isspace(SubSeq(input, i, i))
    THEN identifier_end(input, i + 1)
    ELSE i

\* parse_sources_list (lines 90-99) on the text of the file.
RECURSIVE parse_sources_list(_)
parse_sources_list(input) ==
    IF Len(skip_whitespace(input)) = 0 THEN <<>>
    ELSE <<SubSeq(skip_whitespace(input), 1,
                  identifier_end(skip_whitespace(input), 1) - 1)>>
         \o parse_sources_list(SubSeq(skip_whitespace(input),
                                      identifier_end(skip_whitespace(input), 1),
                                      Len(skip_whitespace(input))))

\* extract_file_name: the text after the last '/' or '\'.
RECURSIVE extract_file_name(_)
extract_file_name(path) ==
    IF \E i \in 1..Len(path) : SubSeq(path, i, i) \in {"/", "\\"}
    THEN extract_file_name(SubSeq(path, 2, Len(path)))
    ELSE path

\* A comparison that takes every source file for the one looked for.
names_match_always(symbol_name, source_name) == TRUE

\* Line 53: "if(symbol_name == source_name)".
names_match(symbol_name, source_name) == symbol_name = source_name

sl_others == <<ddVars, cmpVars, astVars, psVars, impVars, prVars, unVars, sdVars, symVars, cpVars, enVars, jsVars>>

\* Line 35: source_paths = parse_sources_list(sources_list_path).
uncc_parse_sources_list ==
    /\ sl_pc = "parse_sources_list"
    /\ source_paths' = parse_sources_list(sl_text)
    /\ sl_pc' = "for"
    /\ UNCHANGED <<sl_text, sl_source_files, path_index, source_index,
                   path_to_source_file, sl_pairs, sl_keys, sl_written, sl_others>>

\* The condition of the for loop (line 48); when it fails the second loop
\* begins with the least key of the map.
selection_for ==
    /\ sl_pc = "for"
    /\ IF path_index <= Len(source_paths) /\ source_index <= Len(sl_source_files)
       THEN sl_pc' = "while" /\ UNCHANGED sl_keys
       ELSE sl_pc' = "write" /\ sl_keys' = sorted_keys(DOMAIN path_to_source_file)
    /\ UNCHANGED <<sl_text, source_paths, sl_source_files, path_index, source_index,
                   path_to_source_file, sl_pairs, sl_written, sl_others>>

\* One test of the while loop (lines 51-58) with what follows it when the
\* loop ends: the break of line 60, or the file added at line 63 and the
\* increments of the for loop.
selection_while ==
    /\ sl_pc = "while"
    /\ IF source_index > Len(sl_source_files)
       THEN /\ sl_pc' = "write"
            /\ sl_keys' = sorted_keys(DOMAIN path_to_source_file)
            /\ UNCHANGED <<path_index, source_index, path_to_source_file, sl_pairs>>
       ELSE IF names_match(extract_file_name(sl_source_files[source_index]),
                           extract_file_name(source_paths[path_index]))
       THEN /\ path_to_source_file' =
                  (source_paths[path_index] :>
                      Append(IF source_paths[path_index] \in DOMAIN path_to_source_file
                             THEN path_to_source_file[source_paths[path_index]]
                             ELSE <<>>,
                             source_index))
                  @@ path_to_source_file
            /\ sl_pairs' = Append(sl_pairs, [path |-> path_index, source |-> source_index])
            /\ path_index' = path_index + 1
            /\ source_index' = source_index + 1
            /\ sl_pc' = "for"
            /\ UNCHANGED sl_keys
       ELSE /\ source_index' = source_index + 1
            /\ UNCHANGED <<sl_pc, path_index, path_to_source_file, sl_pairs, sl_keys>>
    /\ UNCHANGED <<sl_text, source_paths, sl_source_files, sl_written, sl_others>>

\* One pass through the second loop (lines 66-87): a .c or .cpp file and its
\* .h file are handed to the writers with the source files of the key,
\* another file is skipped.
selection_write ==
    /\ sl_pc = "write"
    /\ sl_keys # <<>>
    /\ sl_written' =
          IF extension(Head(sl_keys)) \in {".c", ".cpp"}
          THEN sl_written \cup {[path |-> Head(sl_keys),
                                 sources |-> path_to_source_file[Head(sl_keys)]]}
          ELSE sl_written
    /\ sl_keys' = Tail(sl_keys)
    /\ UNCHANGED <<sl_pc, sl_text, source_paths, sl_source_files, path_index,
                   source_index, path_to_source_file, sl_pairs, sl_others>>

selection_return ==
    /\ sl_pc = "write"
    /\ sl_keys = <<>>
    /\ sl_pc' = "returned"
    /\ UNCHANGED <<sl_text, source_paths, sl_source_files, path_index, source_index,
                   path_to_source_file, sl_pairs, sl_keys, sl_written, sl_others>>

SourcesTexts ==
    {"", "\n", "a.c\n", "src/a.c\nlib/b.cpp\n", "  a.c\t lib/a.c\n\nc.s",
     "crt0.s\nsrc/a.c\nb.cpp", "a.c a.c", "b.cpp\na.c\n"}

FullPaths == {"/usr/src/a.c", "b.cpp", "C:\\lib\\a.c", "crt0.s"}

SelectionInit ==
    /\ sl_text \in SourcesTexts
    /\ \E n \in 0..MaxSourceFiles : sl_source_files \in [1..n -> FullPaths]
    /\ sl_pc = "parse_sources_list"
    /\ source_paths = <<>>
    /\ path_index = 1 /\ source_index = 1
    /\ path_to_source_file = <<>>
    /\ sl_pairs = <<>> /\ sl_keys = <<>> /\ sl_written = {}
    /\ DedupIdle /\ CompareIdle /\ AstIdle /\ ParseIdle /\ ImportIdle
    /\ PrintIdle /\ UnccIdle /\ StdumpIdle /\ SymbolsIdle /\ DeclarationsIdle /\ EnumsIdle /\ JsonIdle

SelectionNext ==
    \/ uncc_parse_sources_list
    \/ selection_for
    \/ selection_while
    \/ selection_write
    \/ selection_return

SpecSelection == SelectionInit /\ [][SelectionNext]_vars

FileNameOfEntry(p) == extract_file_name(source_paths[p])
FileNameOfSource(k) == extract_file_name(sl_source_files[k])

\* The source files paired with entries whose path is the given one.
RECURSIVE SourcesPairedWith(_, _)
SourcesPairedWith(path, k) ==
    IF k > Len(sl_pairs) THEN <<>>
    ELSE (IF source_paths[sl_pairs[k].path] = path THEN <<sl_pairs[k].source>> ELSE <<>>)
         \o SourcesPairedWith(path, k + 1)

SelectionOver == sl_pc \in {"write", "returned"}

\* C30: a source file is selected only if its file name equals the file name
\* of the entry it is paired with; the entries are paired in list order
\* with source files of strictly increasing index, so each source file is
\* paired with at most one entry; once an entry matches no remaining source
\* file no later entry is selected; and only selected files are written.
C30_Selection ==
    /\ \A k \in 1..Len(sl_pairs) :
          /\ FileNameOfSource(sl_pairs[k].source) = FileNameOfEntry(sl_pairs[k].path)
          /\ sl_pairs[k].path = k
          /\ k > 1 => sl_pairs[k - 1].source < sl_pairs[k].source
    /\ \A j, k \in 1..Len(sl_pairs) : sl_pairs[j].source = sl_pairs[k].source => j = k
    /\ \A p \in 1..Len(source_paths) :
          (/\ SelectionOver
           /\ \A k \in 1..Len(sl_pairs) : sl_pairs[k].path # p
           /\ \A q \in 1..(p - 1) : \E k \in 1..Len(sl_pairs) : sl_pairs[k].path = q)
          => /\ \A s \in 1..Len(sl_source_files) :
                   (\A k \in 1..Len(sl_pairs) : sl_pairs[k].source < s)
                      => FileNameOfSource(s) # FileNameOfEntry(p)
             /\ \A k \in 1..Len(sl_pairs) : sl_pairs[k].path < p
    /\ \A w \in sl_written :
          /\ \E k \in 1..Len(sl_pairs) : source_paths[sl_pairs[k].path] = w.path
          /\ w.sources = SourcesPairedWith(w.path, 1)

\* The first source file was skipped, two entries were paired, the third
\* entry matched no remaining source file, and a selected file was written.
C30_Witness ==
    /\ sl_pc = "returned"
    /\ Len(source_paths) = 3
    /\ Len(sl_pairs) = 2
    /\ sl_pairs[1].source = 2
    /\ sl_written # {}

====
